---- MODULE Spec2Model ----
(***************************************************************************)
(* Model of the message broker of services/msg_queue/main.go: a Broker     *)
(* with lazily created Partitions, each one a bounded in-memory queue (a   *)
(* buffered channel), an append-only log file, a pending map guarded by    *)
(* pendingMu, and a monitor goroutine that requeues expired pending        *)
(* records.  HTTP handlers run as concurrent goroutines; a handler is cut  *)
(* into steps at the points where the code takes a lock or uses the        *)
(* channel, so that every interleaving the Go scheduler allows is a        *)
(* behaviour of the model.                                                 *)
(*                                                                         *)
(* Time is measured in units of 10 seconds.  Deadlines are kept relative   *)
(* to the current time: a pending record holds deadline - now, and the     *)
(* action Tick, which lets one unit of time pass, decrements it.  The      *)
(* monitor's ticker delivers the tick time, and the monitor is taken to    *)
(* handle a tick before the next unit of time passes, so in a scan         *)
(* now.After(deadline) is  deadline - now < 0.                             *)
(*                                                                         *)
(* Beside the broker the module models the ConsistentHash ring, the        *)
(* SmartProxy that routes requests by it and checks the brokers' health,   *)
(* and the HTTPMessageQueue client: its partition choice and the retries   *)
(* of Publish, and the encodings a payload goes through between Publish    *)
(* and the consumer's handler.  These share no state with the broker; each *)
(* has its own specification.  The goroutines of Subscribe run against the *)
(* broker's handlers: a GET /consume, an event and a POST /ack are steps   *)
(* of the client and of the broker at once.  A transport failure is taken  *)
(* to hit a request either before the broker sees it or after the broker   *)
(* has answered it.                                                        *)
(*                                                                         *)
(* The two maps that several goroutines share, SmartProxy.healthyBrokers   *)
(* and Broker.partitions, are modelled by who is reading or writing them,  *)
(* and under which mode of their RWMutex, not by their contents.           *)
(***************************************************************************)
EXTENDS Integers, Sequences, FiniteSets, TLC

\* ------------------------------------------------------------------ bounds
\* Capacity of a partition's queue channel (2000 in the source).
QueueCap == 2
\* Number of messages (ids) a behaviour may enqueue: when no time passes,
\* when time passes, and under the fairness conditions.
MaxMsgs == 4
TimedMsgs == 3
LiveMsgs == 3
\* Number of messages the concurrent producers may enqueue.
IndexMsgs == 2
\* Number of messages while sessions are cancelled and partitions closed.
LifeMsgs == 2

\* Number of values of ConsistentHash.hash (2^32 in the source).
HashPoints == 3
\* Virtual nodes per broker (VIRTUAL_NODES, 150 by default).
VirtualNodes == 2
\* Number of requests the proxy forwards, and of its health-check rounds.
MaxRequests == 2
MaxChecks == 2
\* Number of Publish calls of the client.
MaxPublish == 4
\* Number of messages produced while a client is subscribed.
SubMsgs == 1
\* Number of messages produced where the age of the pending records is kept.
AgeMsgs == 2
\* Number of messages produced where one message is followed through its
\* redeliveries.
LateMsgs == 1
\* Events a consume connection holds between the broker and the client.
StreamCap == 1

\* ------------------------------------------------------- program constants
\* defaultVisibilityTimeout = 30 s, in units of 10 s.
VisTO == 3
\* The monitor's ticker period, 50 s, in units of 10 s.
MonitorPeriod == 5

\* The client's maxPartitions when MAX_PARTITIONS is not set.
maxPartitions == 2
\* The attempts of one Publish call.
maxRetries == 3
\* ackMessage: maxRetries := 2.
ackRetries == 2

\* ----------------------------------------------------------------- inputs
\* Broker.topics: topic -> declared partition count.
topics == [t \in {"t"} |-> 1]
Topics == DOMAIN topics
\* Topic names a request may carry; "u" is not configured.
ReqTopics == Topics \cup {"u"}
\* Partition indexes a request may carry: strconv.Atoi accepts every integer;
\* the model draws from one below the declared range to one above it.
PartIdx == (0 - 1)..topics["t"]
\* The indexes at and above 0.
NatIdx == 0..topics["t"]
PKeys == Topics \X PartIdx
Groups == {"g1", "g2"}
Producers == {"p1", "p2"}
Consumers == {"c1", "c2"}
Ids == 1..MaxMsgs

\* discoverBrokers: the endpoints of BROKER_COUNT = 3 brokers, in index order.
brokerEndpoints == <<"b0", "b1", "b2">>
Endpoints == {brokerEndpoints[i] : i \in 1..Len(brokerEndpoints)}
\* The (topic, partition) pairs the proxy is asked to route.
RouteKeys == {"t"} \X (0..1)
\* fmt.Sprintf("%s:%d", broker, i): the name of a virtual node.
virtualNode(broker, i) == <<broker, i>>
VNodes == {virtualNode(b, i) : b \in Endpoints, i \in 0..(VirtualNodes - 1)}
\* The strings ConsistentHash.hash is given, and the values it has.
HashInputs == VNodes \cup RouteKeys
HashSpace == 0..(HashPoints - 1)
\* The request handlers of the proxy, and what a forwarding attempt meets: a
\* transport error or the broker's status.
ProxyOps == {"produce", "consume", "ack"}
\* client.Do returned an error: there is no response and no status.
TransportError == 0
Outcomes == {TransportError, 200, 500}
\* The goroutines that call Publish on one client.
Callers == {"w1", "w2"}

\* The zero value Message{}.
NoMsg == [id |-> 0, topic |-> "", partition |-> 0]
Message(id, topic, part) == [id |-> id, topic |-> topic, partition |-> part]
KeyOf(m) == <<m.topic, m.partition>>

VARIABLES
  partitions,  \* Broker.partitions: topic -> set of created partition indexes
  queue,       \* Partition.queue: the channel's buffer, oldest first
  pending,     \* Partition.pending: id -> [msg, deadline, group]
  file,        \* Partition.file: the lines of the log
  ticker,      \* time until the monitor's ticker fires (0: no partition)
  monitor,     \* the monitor goroutine: [pc, todo]; it holds pendingMu in "scan"
  prod,        \* produceHandler goroutines: [pc, msg]
  cons,        \* consumeHandler goroutines: [pc, key, group, msg, done]
  nextId,      \* the next id genID hands out
  out,         \* the HTTP response written by the last step (NoOut: none)
  resp,        \* history: id -> [msg, status] of the /produce that enqueued it
  returned,    \* history: ids fetchAndTrack has returned
  acked,       \* history: ids for which ack returned true
  lost,        \* history: ids the monitor dropped because the queue was full
  created,     \* history: number of Partition objects newPartition has made
  closed       \* Partition.ctx is cancelled, the file and the channel are closed

VARIABLES
  brokers,        \* ConsistentHash.brokers
  ring,           \* ConsistentHash.ring: hash -> broker
  sortedHashes,   \* ConsistentHash.sortedHashes
  hashOf,         \* the values of ConsistentHash.hash on the strings it is given
  healthyBrokers, \* SmartProxy.healthyBrokers: endpoint -> bool
  stats,          \* SmartProxy.stats: the counters
  pout,           \* what the proxy did with the last request (NoRoute: none)
  rerouted,       \* history: keys the proxy has routed away from their ring owner
  routed,         \* history: key -> the broker it was last forwarded to, since
                  \* the health map last changed ("": not forwarded)
  forwarded       \* history: endpoint -> the number of requests forwarded to it

VARIABLES
  publishCounter, \* HTTPMessageQueue.publishCounter
  pub,            \* Publish calls in progress: [pc, partition, attempt]
  assigned,       \* history: the partitions chosen, in the order of the increments
  codec           \* per caller, one payload on its way from Publish to the
                  \* handler: [pc, payload, body, stored, lines, got]

VARIABLES
  sub,       \* consumeFromPartition goroutines, one per partition:
             \* [pc, conn, msg, attempt]
  stream,    \* per partition: the SSE events written and not yet scanned
  handled,   \* history: id -> the handler's verdict on its latest delivery
  acksFor,   \* history: id -> the /ack requests sent for its latest delivery
  urlOk,     \* http.NewRequestWithContext accepts the consume URL
  cancelReq  \* the application has asked the subscription to stop

VARIABLES
  access     \* per goroutine: the shared map it is reading or writing now and
             \* the mode in which it holds the map's RWMutex: [op, map, lock, write]

partVars == <<partitions, queue, pending, file, ticker, monitor>>
ringVars == <<brokers, ring, sortedHashes, hashOf>>
proxyVars == <<healthyBrokers, stats, pout, rerouted, routed, forwarded>>
clientVars == <<publishCounter, pub, assigned, codec>>
lockVars == <<access>>
subVars == <<sub, stream, handled, acksFor, urlOk, cancelReq>>
histVars == <<resp, returned, acked, lost>>
lifeVars == <<created, closed>>
brokerVars == <<partVars, prod, cons, nextId, out, histVars, lifeVars>>
\* What no handler of the broker touches.
offBroker == <<ringVars, proxyVars, clientVars, subVars, lockVars>>
vars == <<brokerVars, offBroker>>

\* ---------------------------------------------------------------- helpers
Max(a, b) == IF a >= b THEN a ELSE b
SeqToSet(s) == {s[i] : i \in 1..Len(s)}
\* m with key k set to v, and m without key k.
MapPut(m, k, v) == [i \in DOMAIN m \cup {k} |-> IF i = k THEN v ELSE m[i]]
MapDel(m, k) == [i \in DOMAIN m \ {k} |-> m[i]]

\* A response: the handler that wrote it, the status and the body.
Http(op, status, body) == [op |-> op, status |-> status, body |-> body]
NoOut == Http("", 0, "")
IdleProd == [pc |-> "idle", msg |-> NoMsg]
IdleCons ==
  [pc |-> "idle", key |-> <<"", 0>>, group |-> "", msg |-> NoMsg, done |-> FALSE]

\* ------------------------------------------------------------- Partition
\* persist that writes nothing.
persistNothing(log, m) == log
\* persist: one JSON line appended to the log.
persist(log, m) == Append(log, m)

\* A capacity check that is off by one.
QueueFullOffByOne(q) == Len(q) > QueueCap
\* The default branch of the non-blocking send: the channel buffer is full.
QueueFull(q) == Len(q) >= QueueCap

\* A send that waits for room in the buffer.
sendWaits(q) == QueueFull(q)
\* `select { case p.queue <- m: ... default: ... }`: with a default case the
\* sender never waits, whatever the buffer holds.
sendBlocks(q) == FALSE

\* A send that loses the message.
pushDrop(q, m) == q
\* A send that puts the message at the head of the buffer.
pushFront(q, m) == <<m>> \o q
\* A send on the channel.
push(q, m) == Append(q, m)

\* A receive that leaves the message in the buffer for the next receiver.
recvKeep(q) == q
\* A receive from the channel: the oldest message, and what stays behind.
recvMsg(q) == Head(q)
recvRest(q) == Tail(q)

\* An expiry test that every record passes.
ExpiredAlways(pd) == TRUE
\* An expiry test that is not strict: !now.Before(pd.deadline).
ExpiredAtDeadline(pd) == pd.deadline <= 0
\* now.After(pd.deadline), with the deadline kept relative to now.
Expired(pd) == pd.deadline < 0

\* The record fetchAndTrack stores: deadline = time.Now().Add(visTO).
Track(m, group) == [msg |-> m, deadline |-> VisTO, group |-> group]

\* An ack that does not compare the groups.
ackAnyGroup(pend, id, group) == id \in DOMAIN pend
\* Partition.ack: the id is pending and was dispatched to this group.
ackOk(pend, id, group) == id \in DOMAIN pend /\ pend[id].group = group
\* An ack that leaves the record in the pending map.
ackKeep(pend, id) == pend
\* delete(p.pending, msgID) in Partition.ack
ackDelete(pend, id) == MapDel(pend, id)

\* A requeue that leaves the record in the pending map.
requeueKeep(pend, id) == pend
\* A requeue that empties the pending map.
requeueDeleteAll(pend, id) == << >>
\* delete(p.pending, id) in monitorPending
requeueDelete(pend, id) == MapDel(pend, id)

\* A requeue that sends nothing.
requeueDrop(q, m) == q
\* A requeue that puts the message before the waiting ones.
requeueFront(q, m) == <<m>> \o q
\* monitorPending's send of an expired message on the queue.
requeue(q, m) == Append(q, m)

\* A creation that does not look for the partition again.
existsUnchecked(topic, part) == FALSE
\* createPartitionIfNotExists, under the write lock: pm[partition] exists.
exists(topic, part) == part \in partitions[topic]

\* The range check of createPartitionIfNotExists.
OutOfRange(topic, part) == part >= topics[topic]

\* A lookup that takes every partition of a known topic to exist.
lookupAny(topic, part) == topic \in DOMAIN partitions
\* getPartition(topic, part, false): the partition must exist already.
Lookup(topic, part) == topic \in DOMAIN partitions /\ part \in partitions[topic]
\* The error of a getPartition that finds no partition.
LookupError(topic) ==
  IF topic \in DOMAIN partitions THEN "partition does not exist" ELSE "unknown topic"

\* NewBroker: the topics are known, no partition exists.
BrokerInit ==
  /\ partitions = [t \in Topics |-> {}]
  /\ queue = [k \in PKeys |-> << >>]
  /\ pending = [k \in PKeys |-> << >>]
  /\ file = [k \in PKeys |-> << >>]
  /\ ticker = [k \in PKeys |-> 0]
  /\ monitor = [k \in PKeys |-> [pc |-> "wait", todo |-> {}]]
  /\ prod = [p \in Producers |-> IdleProd]
  /\ cons = [c \in Consumers |-> IdleCons]
  /\ nextId = 1
  /\ out = NoOut
  /\ resp = << >>
  /\ returned = {}
  /\ acked = {}
  /\ lost = {}
  /\ created = [k \in PKeys |-> 0]
  /\ closed = [k \in PKeys |-> FALSE]

\* ------------------------------------------------------- produceHandler
\* produceHandler up to the read-locked lookup of getPartition.  The id of
\* the message is a fresh random string; the model draws it when enqueue
\* first uses it.
ProduceStart(p, topic, part, budget) ==
  /\ prod[p].pc = "idle"
  /\ nextId <= budget
  /\ IF topic \notin DOMAIN partitions
       THEN /\ out' = Http("produce", 400, "unknown topic")
            /\ UNCHANGED prod
       ELSE /\ prod' = [prod EXCEPT ![p] =
                 [pc |-> IF part \in partitions[topic] THEN "persist" ELSE "create",
                  msg |-> Message(0, topic, part)]]
            /\ out' = NoOut
  /\ UNCHANGED <<partVars, cons, nextId, histVars>>
  /\ UNCHANGED <<lifeVars, offBroker>>

\* createPartitionIfNotExists, under partitionsMu.Lock; newPartition makes the
\* channel and the pending map, opens the log for appending, and starts the
\* monitor and its ticker.
ProduceCreate(p) ==
  /\ prod[p].pc = "create"
  /\ LET m == prod[p].msg
         k == KeyOf(m) IN
       IF exists(m.topic, m.partition)
         THEN /\ prod' = [prod EXCEPT ![p].pc = "persist"]
              /\ out' = NoOut
              /\ UNCHANGED <<partitions, queue, pending, ticker, monitor, created>>
         ELSE IF OutOfRange(m.topic, m.partition)
           THEN /\ out' = Http("produce", 400, "partition exceeds max partitions")
                /\ prod' = [prod EXCEPT ![p] = IdleProd]
                /\ UNCHANGED <<partitions, queue, pending, ticker, monitor, created>>
           ELSE /\ partitions' = [partitions EXCEPT ![m.topic] = @ \cup {m.partition}]
                /\ queue' = [queue EXCEPT ![k] = << >>]
                /\ pending' = [pending EXCEPT ![k] = << >>]
                /\ ticker' = [ticker EXCEPT ![k] = MonitorPeriod]
                /\ monitor' = [monitor EXCEPT ![k] = [pc |-> "wait", todo |-> {}]]
                /\ created' = [created EXCEPT ![k] = @ + 1]
                /\ prod' = [prod EXCEPT ![p].pc = "persist"]
                /\ out' = NoOut
  /\ UNCHANGED <<file, cons, nextId, histVars>>
  /\ UNCHANGED <<closed, offBroker>>

\* Partition.enqueue, first half: persist, under fileMu.  A Write on the
\* closed file fails, and the handler answers 500.
ProducePersist(p) ==
  /\ prod[p].pc = "persist"
  /\ LET m == [prod[p].msg EXCEPT !.id = nextId] IN
       IF closed[KeyOf(m)]
         THEN /\ out' = Http("produce", 500, "enqueue failed: file already closed")
              /\ prod' = [prod EXCEPT ![p] = IdleProd]
              /\ UNCHANGED <<file, nextId>>
         ELSE /\ file' = [file EXCEPT ![KeyOf(m)] = persist(@, m)]
              /\ prod' = [prod EXCEPT ![p] = [pc |-> "push", msg |-> m]]
              /\ nextId' = nextId + 1
              /\ out' = NoOut
  /\ UNCHANGED <<partitions, queue, pending, ticker, monitor, cons, histVars>>
  /\ UNCHANGED <<lifeVars, offBroker>>

\* Partition.enqueue, second half: the non-blocking send; then the response.
\* A send on the closed channel panics: net/http recovers the handler's
\* goroutine and the client gets no response (status 0).
ProducePush(p) ==
  /\ prod[p].pc = "push"
  /\ ~sendBlocks(queue[KeyOf(prod[p].msg)])
  /\ LET m == prod[p].msg
         k == KeyOf(m) IN
       IF closed[k]
         THEN /\ out' = Http("produce", 0, "panic: send on closed channel")
              /\ UNCHANGED queue
         ELSE IF QueueFull(queue[k])
           THEN /\ out' = Http("produce", 500, "enqueue failed: queue full")
                /\ UNCHANGED queue
           ELSE /\ queue' = [queue EXCEPT ![k] = push(@, m)]
                /\ out' = Http("produce", 200, "id")
  /\ resp' = MapPut(resp, prod[p].msg.id,
                     [msg |-> prod[p].msg, status |-> out'.status])
  /\ prod' = [prod EXCEPT ![p] = IdleProd]
  /\ UNCHANGED <<partitions, pending, file, ticker, monitor, cons, nextId,
                 returned, acked, lost>>
  /\ UNCHANGED <<lifeVars, offBroker>>

Produce(p, tps, parts, budget) ==
  \/ \E topic \in tps, part \in parts : ProduceStart(p, topic, part, budget)
  \/ ProduceCreate(p)
  \/ ProducePersist(p)
  \/ ProducePush(p)

\* ------------------------------------------------------- consumeHandler
\* consumeHandler up to the start of its loop.
openStream(c, topic, part, group) ==
  /\ cons[c].pc = "idle"
  /\ IF Lookup(topic, part)
       THEN /\ cons' = [cons EXCEPT ![c] =
                 [pc |-> "loop", key |-> <<topic, part>>, group |-> group,
                  msg |-> NoMsg, done |-> FALSE]]
            /\ out' = NoOut
       ELSE /\ out' = Http("consume", 400, LookupError(topic))
            /\ UNCHANGED cons
  /\ UNCHANGED <<partVars, prod, nextId, histVars>>
  /\ UNCHANGED lifeVars

ConsumeStart(c, topic, part, group) ==
  /\ openStream(c, topic, part, group)
  /\ UNCHANGED offBroker

\* The loop head finds the request context not done: the handler calls
\* fetchAndTrack, which waits in its select.
LoopEnter(c) ==
  /\ cons[c].pc = "loop"
  /\ ~cons[c].done
  /\ cons' = [cons EXCEPT ![c].pc = "fetch"]
  /\ out' = NoOut
  /\ UNCHANGED <<partVars, prod, nextId, histVars>>
  /\ UNCHANGED <<lifeVars, offBroker>>

\* The request context is cancelled while fetchAndTrack waits in its select,
\* which has no case for it.  (A cancellation at any other point is seen at
\* the next loop head: ConsumeCancel.)
CancelInFlight(c) ==
  /\ cons[c].pc = "fetch"
  /\ ~cons[c].done
  /\ cons' = [cons EXCEPT ![c].done = TRUE]
  /\ out' = NoOut
  /\ UNCHANGED <<partVars, prod, nextId, histVars>>
  /\ UNCHANGED <<lifeVars, offBroker>>

\* The loop head finds the request context done: the handler returns.
ConsumeCancel(c) ==
  /\ cons[c].pc = "loop"
  /\ cons' = [cons EXCEPT ![c] = IdleCons]
  /\ out' = NoOut
  /\ UNCHANGED <<partVars, prod, nextId, histVars>>
  /\ UNCHANGED <<lifeVars, offBroker>>

\* fetchAndTrack: the select receives from the queue channel: the oldest
\* message of the buffer or, from a closed and drained channel, the zero
\* Message.
FetchRecv(c) ==
  /\ cons[c].pc = "fetch"
  /\ LET k == cons[c].key IN
       /\ queue[k] # << >> \/ closed[k]
       /\ cons' = [cons EXCEPT ![c].pc = "track",
                                ![c].msg = IF queue[k] # << >>
                                             THEN recvMsg(queue[k]) ELSE NoMsg]
       /\ queue' = [queue EXCEPT ![k] = IF @ # << >> THEN recvRest(@) ELSE @]
  /\ out' = NoOut
  /\ UNCHANGED <<partitions, pending, file, ticker, monitor, prod, nextId, histVars>>
  /\ UNCHANGED <<lifeVars, offBroker>>

\* fetchAndTrack: the select's timer fires after 5 s without a message; the
\* call returns "no messages available" and the handler, after a sleep of
\* 1 s, is at its loop head again.
FetchTimeout(c) ==
  /\ cons[c].pc = "fetch"
  /\ queue[cons[c].key] = << >>
  /\ ~closed[cons[c].key]
  /\ cons' = [cons EXCEPT ![c].pc = "loop"]
  /\ out' = NoOut
  /\ UNCHANGED <<partVars, prod, nextId, histVars>>
  /\ UNCHANGED <<lifeVars, offBroker>>

\* fetchAndTrack: the select takes the case of the partition's cancelled
\* context; the call returns "partition closed" and the handler returns.
FetchClosed(c) ==
  /\ cons[c].pc = "fetch"
  /\ closed[cons[c].key]
  /\ cons' = [cons EXCEPT ![c] = IdleCons]
  /\ out' = NoOut
  /\ UNCHANGED <<partVars, prod, nextId, histVars>>
  /\ UNCHANGED <<lifeVars, offBroker>>

\* fetchAndTrack: under pendingMu, the message becomes pending.
FetchTrack(c) ==
  /\ cons[c].pc = "track"
  /\ LET k == cons[c].key
         m == cons[c].msg IN
       /\ monitor[k].pc # "scan"
       /\ pending' = [pending EXCEPT ![k] = MapPut(@, m.id, Track(m, cons[c].group))]
  /\ cons' = [cons EXCEPT ![c].pc = "send"]
  /\ out' = NoOut
  /\ UNCHANGED <<partitions, queue, file, ticker, monitor, prod, nextId,
                 resp, returned, acked, lost>>
  /\ UNCHANGED <<lifeVars, offBroker>>

\* fetchAndTrack returns the message and the handler writes the SSE event.
writeEvent(c) ==
  /\ cons[c].pc = "send"
  /\ returned' = returned \cup {cons[c].msg.id}
  /\ cons' = [cons EXCEPT ![c].pc = "loop", ![c].msg = NoMsg]
  /\ out' = NoOut
  /\ UNCHANGED <<partVars, prod, nextId, resp, acked, lost>>
  /\ UNCHANGED lifeVars

FetchReturn(c) ==
  /\ writeEvent(c)
  /\ UNCHANGED offBroker

\* A consume session that is not cancelled.
Session(c, tps, parts) ==
  \/ \E topic \in tps, part \in parts, group \in Groups :
       ConsumeStart(c, topic, part, group)
  \/ LoopEnter(c)
  \/ FetchTimeout(c)
  \/ FetchRecv(c)
  \/ FetchTrack(c)
  \/ FetchReturn(c)

Consume(c, tps, parts) ==
  \/ Session(c, tps, parts)
  \/ ConsumeCancel(c)

\* ------------------------------------------------------------ ackHandler
\* ackHandler: getPartition, then Partition.ack under pendingMu.
ackHandler(topic, part, id, group) ==
  /\ IF ~Lookup(topic, part)
       THEN /\ out' = Http("ack", 400, LookupError(topic))
            /\ UNCHANGED <<pending, acked>>
       ELSE LET k == <<topic, part>> IN
            /\ monitor[k].pc # "scan"
            /\ IF ackOk(pending[k], id, group)
                 THEN /\ pending' = [pending EXCEPT ![k] = ackDelete(@, id)]
                      /\ acked' = acked \cup {id}
                      /\ out' = Http("ack", 200, "ok")
                 ELSE /\ out' = Http("ack", 400, "ack failed (unknown id or wrong group)")
                      /\ UNCHANGED <<pending, acked>>
  /\ UNCHANGED <<partitions, queue, file, ticker, monitor, prod, cons, nextId,
                 resp, returned, lost>>
  /\ UNCHANGED lifeVars

Ack(topic, part, id, group) ==
  /\ ackHandler(topic, part, id, group)
  /\ UNCHANGED offBroker

\* Partition.Close: the context is cancelled, the file and the channel are
\* closed.  The messages in the channel's buffer stay receivable.
Close(k) ==
  /\ k[2] \in partitions[k[1]]
  /\ ~closed[k]
  /\ closed' = [closed EXCEPT ![k] = TRUE]
  /\ out' = NoOut
  /\ UNCHANGED <<partVars, prod, cons, nextId, histVars, created, offBroker>>

\* ------------------------------------------------------- monitorPending
\* One unit of time passes; a ticker that runs out sends its tick.  The
\* deadlines, kept relative to now, are followed down to floor: a deadline
\* below zero has passed, by however much.
elapse(floor) ==
  /\ \A k \in PKeys : monitor[k].pc = "wait"
  /\ \E k \in PKeys : ticker[k] > 0
  /\ pending' = [k \in PKeys |-> [i \in DOMAIN pending[k] |->
                   [pending[k][i] EXCEPT !.deadline = Max(@ - 1, floor)]]]
  /\ ticker' = [k \in PKeys |->
                   IF ticker[k] = 1 THEN MonitorPeriod ELSE Max(ticker[k] - 1, 0)]
  /\ monitor' = [k \in PKeys |->
                   IF ticker[k] = 1 THEN [pc |-> "tick", todo |-> {}] ELSE monitor[k]]
  /\ out' = NoOut
  /\ UNCHANGED <<partitions, queue, file, prod, cons, nextId, resp, returned,
                 acked, lost>>
  /\ UNCHANGED <<lifeVars, offBroker>>

\* Time in which all that matters of a deadline is whether it has passed.
Tick == elapse(0 - 1)
\* Time in which a passed deadline tells how long ago it passed, up to one
\* period of the monitor.
AgeTick == elapse(0 - MonitorPeriod)
\* The time since the delivery that stored the pending record pd.
Age(pd) == VisTO - pd.deadline

\* The monitor receives the tick and locks pendingMu; it will visit the
\* records whose deadline the tick time is after.
MonitorStart(k) ==
  /\ monitor[k].pc = "tick"
  /\ monitor' = [monitor EXCEPT ![k] =
        [pc |-> "scan", todo |-> {i \in DOMAIN pending[k] : Expired(pending[k][i])}]]
  /\ out' = NoOut
  /\ UNCHANGED <<partitions, queue, pending, file, ticker, prod, cons, nextId,
                 histVars>>
  /\ UNCHANGED <<lifeVars, offBroker>>

\* The monitor removes one expired record and sends its message on the queue,
\* or drops it when the queue is full.  A send on the closed channel panics,
\* in a goroutine where nothing recovers it.
MonitorRequeue(k, id) ==
  /\ monitor[k].pc = "scan"
  /\ id \in monitor[k].todo
  /\ ~sendBlocks(queue[k])
  /\ pending' = [pending EXCEPT ![k] = requeueDelete(@, id)]
  /\ IF closed[k]
       THEN /\ out' = Http("monitor", 0, "panic: send on closed channel")
            /\ UNCHANGED <<queue, lost>>
       ELSE /\ out' = NoOut
            /\ IF QueueFull(queue[k])
                 THEN /\ lost' = lost \cup {id}
                      /\ UNCHANGED queue
                 ELSE /\ queue' = [queue EXCEPT ![k] = requeue(@, pending[k][id].msg)]
                      /\ UNCHANGED lost
  /\ monitor' = [monitor EXCEPT ![k].todo = @ \ {id}]
  /\ UNCHANGED <<partitions, file, ticker, prod, cons, nextId, resp, returned,
                 acked>>
  /\ UNCHANGED <<lifeVars, offBroker>>

\* The scan is over: the monitor unlocks pendingMu.
MonitorEnd(k) ==
  /\ monitor[k].pc = "scan"
  /\ monitor[k].todo = {}
  /\ monitor' = [monitor EXCEPT ![k] = [pc |-> "wait", todo |-> {}]]
  /\ out' = NoOut
  /\ UNCHANGED <<partitions, queue, pending, file, ticker, prod, cons, nextId,
                 histVars>>
  /\ UNCHANGED <<lifeVars, offBroker>>

Monitor(k) ==
  \/ MonitorStart(k)
  \/ \E id \in Ids : MonitorRequeue(k, id)
  \/ MonitorEnd(k)

\* -------------------------------------------------------- ConsistentHash
\* ConsistentHash.hash: the first 4 bytes of the SHA-512 of the string; the
\* model takes its values from hashOf, which Init draws.
hash(x) == hashOf[x]

\* The virtual nodes of the broker list bs in the order buildRing visits them.
vnodeSeq(bs) ==
  [j \in 1..(Len(bs) * VirtualNodes) |->
     virtualNode(bs[((j - 1) \div VirtualNodes) + 1], (j - 1) % VirtualNodes)]

\* buildRing, the map: a later virtual node overwrites an earlier one that has
\* the same hash.
ringOf(bs) ==
  LET vs == vnodeSeq(bs) IN
    [h \in {hash(vs[j]) : j \in DOMAIN vs} |->
       LET last == CHOOSE j \in DOMAIN vs :
                     /\ hash(vs[j]) = h
                     /\ \A i \in DOMAIN vs : hash(vs[i]) = h => i <= j
       IN vs[last][1]]

\* buildRing, the sorted slice: one entry per virtual node.
sortedOf(bs) ==
  LET vs == vnodeSeq(bs) IN
    SortSeq([j \in DOMAIN vs |-> hash(vs[j])], LAMBDA a, b : a < b)

\* sort.Search: the least index whose entry is >= h, or the length (indexes
\* from 1 here, so Len + 1).
Search(sh, h) ==
  LET ge == {i \in 1..Len(sh) : sh[i] >= h} IN
    IF ge = {} THEN Len(sh) + 1 ELSE CHOOSE i \in ge : \A j \in ge : i <= j

\* The broker a ring gives to a key: the first entry clockwise from the
\* key's hash, wrapping around.
ownerIn(bs, r, sh, key) ==
  IF Len(bs) = 0 THEN ""
  ELSE LET idx == Search(sh, hash(key)) IN
         r[sh[IF idx = Len(sh) + 1 THEN 1 ELSE idx]]

GetBrokerByKey(key) == ownerIn(brokers, ring, sortedHashes, key)
GetBrokerByTopicPartition(topic, partition) ==
  ownerIn(brokers, ring, sortedHashes, <<topic, partition>>)

\* A removal that drops the last broker of the list.
removeLast(bs, b) == SubSeq(bs, 1, Len(bs) - 1)
\* The broker list after RemoveBroker: without the first occurrence of b.
removeBroker(bs, b) ==
  IF \E i \in 1..Len(bs) : bs[i] = b
    THEN LET i == CHOOSE n \in 1..Len(bs) :
                    bs[n] = b /\ \A j \in 1..(n - 1) : bs[j] # b
         IN SubSeq(bs, 1, i - 1) \o SubSeq(bs, i + 1, Len(bs))
    ELSE bs
\* The broker list after AddBroker: b appended unless it exists already.
addBroker(bs, b) ==
  IF \E i \in 1..Len(bs) : bs[i] = b THEN bs ELSE Append(bs, b)

\* NewConsistentHash(brokerEndpoints, virtualNodes), for any values of hash.
RingInit ==
  /\ hashOf \in [HashInputs -> HashSpace]
  /\ brokers = brokerEndpoints
  /\ ring = ringOf(brokerEndpoints)
  /\ sortedHashes = sortedOf(brokerEndpoints)

\* The same for hash values that spread the brokers round the ring, the
\* virtual nodes of the n-th broker at point n - 1, and put the keys anywhere:
\* every broker owns a point, and a key may be owned by any broker.
SpreadRingInit ==
  /\ \E kh \in [RouteKeys -> HashSpace] :
       hashOf = [x \in HashInputs |->
                   IF x \in RouteKeys THEN kh[x]
                   ELSE (CHOOSE n \in 1..Len(brokerEndpoints) :
                           brokerEndpoints[n] = x[1]) - 1]
  /\ brokers = brokerEndpoints
  /\ ring = ringOf(brokerEndpoints)
  /\ sortedHashes = sortedOf(brokerEndpoints)

AddBroker(b) ==
  /\ brokers' = addBroker(brokers, b)
  /\ IF brokers' = brokers
       THEN UNCHANGED <<ring, sortedHashes>>
       ELSE ring' = ringOf(brokers') /\ sortedHashes' = sortedOf(brokers')
  /\ UNCHANGED <<hashOf, proxyVars, clientVars, lockVars, brokerVars, subVars>>

RemoveBroker(b) ==
  /\ brokers' = removeBroker(brokers, b)
  /\ ring' = ringOf(brokers')
  /\ sortedHashes' = sortedOf(brokers')
  /\ UNCHANGED <<hashOf, proxyVars, clientVars, lockVars, brokerVars, subVars>>

\* ------------------------------------------------------------ SmartProxy
\* What the proxy did with a request: the broker it chose, the number of
\* forwarding attempts and the status it answered.
Route(op, key, target, attempts, status) ==
  [op |-> op, key |-> key, target |-> target, attempts |-> attempts,
   status |-> status]
NoRoute == Route("", <<"", 0>>, "", 0, 0)

\* A health test that takes every broker for healthy.
alwaysHealthy(b) == TRUE
\* sp.healthyBrokers[b]: false for an endpoint that is not in the map.
Healthy(b) == b \in DOMAIN healthyBrokers /\ healthyBrokers[b]

\* A lookup that deals the brokers out in turn.
getBrokerRoundRobin(topic, partition) ==
  brokerEndpoints[(stats.total % Len(brokerEndpoints)) + 1]
\* A lookup that fails over to the last healthy endpoint of the broker list.
getBrokerFailoverLast(topic, partition) ==
  LET broker == GetBrokerByTopicPartition(topic, partition)
      ok == {i \in 1..Len(brokerEndpoints) : Healthy(brokerEndpoints[i])} IN
    IF ~Healthy(broker) /\ ok # {}
      THEN brokerEndpoints[CHOOSE i \in ok : \A j \in ok : i >= j]
      ELSE broker
\* getBrokerForTopicPartition, under sp.mu.RLock: the ring owner or, when it
\* is unhealthy, the first healthy endpoint of the broker list; when there
\* is none, the ring owner all the same.
getBrokerForTopicPartition(topic, partition) ==
  LET broker == GetBrokerByTopicPartition(topic, partition)
      ok == {i \in 1..Len(brokerEndpoints) : Healthy(brokerEndpoints[i])} IN
    IF ~Healthy(broker) /\ ok # {}
      THEN brokerEndpoints[CHOOSE i \in ok : \A j \in ok : i <= j]
      ELSE broker

\* A forwarding that tries once more after a transport error.
forwardRetry(outcomes) ==
  IF outcomes[1] = TransportError
    THEN [result |-> outcomes[2], attempts |-> 2]
    ELSE [result |-> outcomes[1], attempts |-> 1]
\* forwardRequest: one sp.client.Do, whatever it meets; outcomes lists what
\* successive attempts would meet.
forward(outcomes) == [result |-> outcomes[1], attempts |-> 1]

\* The keys of ProxyStats.BrokerRequestCounts and BrokerErrors are strings:
\* a broker endpoint is the one-part text <<e>>, and the URL a handler builds
\* with fmt.Sprintf("%s/<op>?topic=%s&partition=%d", ...) is the endpoint
\* followed by the path and the query.
endpointKey(e) == <<e>>
targetURL(targetBroker, op, topic, partition) ==
  <<targetBroker, op, topic, partition>>

\* initBrokerMetrics: a zero under every endpoint of the broker list
initBrokerMetrics == [k \in {endpointKey(e) : e \in Endpoints} |-> 0]

\* m[k]++ on a Go map: a key that is not there yet starts from zero
incr(m, k) ==
  [x \in DOMAIN m \cup {k} |-> IF x = k THEN (IF k \in DOMAIN m THEN m[k] + 1 ELSE 1)
                                        ELSE m[x]]

\* recordRequest: the atomic counters, then the two maps under stats.mu, at
\* the key the caller passes as broker
recordRequest(broker, success) ==
  [stats EXCEPT
     !.total = @ + 1,
     !.success = IF success THEN @ + 1 ELSE @,
     !.failed = IF success THEN @ ELSE @ + 1,
     !.requestCount = @ + 1,
     !.brokerRequestCounts = IF success THEN incr(@, broker) ELSE @,
     !.brokerErrors = IF success THEN @ ELSE incr(@, broker)]

\* produceHandler, consumeHandler and ackHandler of the proxy: the lookup,
\* forwardRequest and recordRequest.  The handler reads the health map once,
\* in the lookup, and its counters are atomic, so its steps are taken as one.
ProxyRequest(op, topic, partition, outcomes) ==
  LET key == <<topic, partition>>
      target == getBrokerForTopicPartition(topic, partition) IN
    /\ IF target = ""
         THEN /\ pout' = Route(op, key, "", 0, 503)
              /\ UNCHANGED <<stats, forwarded>>
         ELSE LET f == forward(outcomes)
                  status == IF f.result = TransportError THEN 502 ELSE f.result
                  success ==
                    f.result # TransportError /\ status >= 200 /\ status < 400
              IN /\ stats.total < MaxRequests
                 /\ pout' = Route(op, key, target, f.attempts, status)
                 /\ stats' = recordRequest(targetURL(target, op, topic, partition),
                                            success)
                 /\ forwarded' = [forwarded EXCEPT ![target] = @ + 1]
    /\ rerouted' = IF target # GetBrokerByTopicPartition(topic, partition)
                      THEN rerouted \cup {key} ELSE rerouted
    /\ routed' = [routed EXCEPT ![key] = target]
    /\ UNCHANGED <<healthyBrokers, ringVars, clientVars, lockVars, brokerVars, subVars>>

\* checkBrokerHealth, under sp.mu.Lock: one GET /health per endpoint; up
\* tells which of them answer 200.
CheckBrokerHealth(up) ==
  /\ stats.checks < MaxChecks
  /\ healthyBrokers' = [e \in Endpoints |-> e \in up]
  /\ stats' = [stats EXCEPT
        !.checks = @ + 1,
        !.failures = @ + Cardinality({e \in Endpoints : Healthy(e) /\ e \notin up})]
  /\ pout' = NoRoute
  /\ routed' = IF healthyBrokers' = healthyBrokers
                 THEN routed ELSE [k \in RouteKeys |-> ""]
  /\ UNCHANGED <<rerouted, forwarded, ringVars, clientVars, lockVars, brokerVars, subVars>>

\* NewSmartProxy and Start: every endpoint is assumed healthy.
ProxyInit ==
  /\ healthyBrokers = [e \in Endpoints |-> TRUE]
  /\ stats = [total |-> 0, success |-> 0, failed |-> 0, checks |-> 0,
              failures |-> 0, requestCount |-> 0,
              brokerRequestCounts |-> initBrokerMetrics,
              brokerErrors |-> initBrokerMetrics]
  /\ pout = NoRoute
  /\ rerouted = {}
  /\ routed = [k \in RouteKeys |-> ""]
  /\ forwarded = [e \in Endpoints |-> 0]


\* ------------------------------------------------- the payload's encodings
\* Texts are sequences of characters.
Q == "\""
BS == "\\"
NL == "\n"
payloadKey == <<"p", "a", "y", "l", "o", "a", "d">>
idKey == <<"i", "d">>
topicKey == <<"t", "o", "p", "i", "c">>
createdKey == <<"c", "r", "e", "a", "t", "e", "d", "_", "a", "t">>
partitionKey == <<"p", "a", "r", "t", "i", "t", "i", "o", "n">>
dataPrefix == <<"d", "a", "t", "a", ":", " ">>
idPrefix == <<"i", "d", ":", " ">>
partitionPrefix == <<"p", "a", "r", "t", "i", "t", "i", "o", "n", ":", " ">>

\* The payloads the application publishes: empty, plain, with white space
\* around, with a quote, a backslash and a line break, and JSON objects.
Payloads ==
  { << >>,
    <<"a">>,
    <<" ">>,
    <<" ", "a", " ">>,
    <<"a", NL, "b">>,
    <<Q>>,
    <<BS, "n">>,
    <<"{", "}">>,
    <<"{", Q, "a", Q, ":", "1", "}">>,
    <<"{", Q, "p", "a", "y", "l", "o", "a", "d", Q, ":", Q, "x", Q, "}">> }

\* encoding/json writes a string: quote, backslash and line break escaped.
RECURSIVE Esc(_)
Esc(t) ==
  IF t = << >> THEN << >>
  ELSE (IF Head(t) = Q THEN <<BS, Q>>
        ELSE IF Head(t) = BS THEN <<BS, BS>>
        ELSE IF Head(t) = NL THEN <<BS, "n">>
        ELSE <<Head(t)>>) \o Esc(Tail(t))

\* encoding/json reads the inside of a string literal.
RECURSIVE Unesc(_)
Unesc(t) ==
  IF t = << >> THEN << >>
  ELSE IF Head(t) = BS /\ Len(t) >= 2
         THEN <<IF t[2] = "n" THEN NL ELSE t[2]>> \o Unesc(Tail(Tail(t)))
         ELSE <<Head(t)>> \o Unesc(Tail(t))

jsonString(t) == <<Q>> \o Esc(t) \o <<Q>>

\* The index of the quote that closes the string literal whose inside
\* starts at i; 0 if there is none.
RECURSIVE StrEnd(_, _)
StrEnd(t, i) ==
  IF i > Len(t) THEN 0
  ELSE IF t[i] = BS THEN StrEnd(t, i + 2)
  ELSE IF t[i] = Q THEN i
  ELSE StrEnd(t, i + 1)

\* The index of the first character from i on that ends a number.
RECURSIVE NumEnd(_, _)
NumEnd(t, i) ==
  IF i > Len(t) \/ t[i] \in {",", "}"} THEN i ELSE NumEnd(t, i + 1)

\* json.Unmarshal of an object whose values are strings and numbers: the
\* fields from position i on, appended to acc; not ok on malformed text.
RECURSIVE ParseFields(_, _, _)
ParseFields(t, i, acc) ==
  LET bad == [ok |-> FALSE, fields |-> << >>]
      ke == StrEnd(t, i + 1)
      v == ke + 2
      isStr == v <= Len(t) /\ t[v] = Q
      ve == IF isStr THEN StrEnd(t, v + 1) ELSE NumEnd(t, v) - 1
      field == [key |-> Unesc(SubSeq(t, i + 1, ke - 1)),
                str |-> isStr,
                val |-> IF isStr THEN Unesc(SubSeq(t, v + 1, ve - 1))
                                 ELSE SubSeq(t, v, ve)]
  IN IF i > Len(t) \/ t[i] # Q \/ ke = 0 THEN bad
     ELSE IF ke + 1 > Len(t) \/ t[ke + 1] # ":" THEN bad
     ELSE IF v > Len(t) \/ (isStr /\ ve = 0) \/ (~isStr /\ ve < v) THEN bad
     ELSE IF ve + 1 > Len(t) THEN bad
     ELSE IF t[ve + 1] = "}"
            THEN (IF ve + 1 = Len(t)
                    THEN [ok |-> TRUE, fields |-> Append(acc, field)] ELSE bad)
     ELSE IF t[ve + 1] = "," THEN ParseFields(t, ve + 2, Append(acc, field))
     ELSE bad

Unmarshal(t) ==
  IF Len(t) < 2 \/ t[1] # "{" THEN [ok |-> FALSE, fields |-> << >>]
  ELSE IF t = <<"{", "}">> THEN [ok |-> TRUE, fields |-> << >>]
  ELSE ParseFields(t, 2, << >>)

\* What Unmarshal leaves in a string field of the target struct: the value
\* of the last field of that name, "" if there is none; a number for a string
\* field is an error.
RECURSIVE fieldOf(_, _)
fieldOf(fields, key) ==
  IF fields = << >> THEN [ok |-> TRUE, val |-> << >>]
  ELSE LET f == fields[Len(fields)] IN
       IF f.key = key THEN [ok |-> f.str, val |-> f.val]
       ELSE fieldOf(SubSeq(fields, 1, Len(fields) - 1), key)

\* strings.TrimSpace.
IsSpace(ch) == ch \in {" ", NL}
RECURSIVE TrimLeft(_)
TrimLeft(t) == IF t # << >> /\ IsSpace(Head(t)) THEN TrimLeft(Tail(t)) ELSE t
RECURSIVE TrimRight(_)
TrimRight(t) ==
  IF t # << >> /\ IsSpace(t[Len(t)]) THEN TrimRight(SubSeq(t, 1, Len(t) - 1)) ELSE t
TrimSpace(t) == TrimRight(TrimLeft(t))

HasPrefix(t, pre) == Len(t) >= Len(pre) /\ SubSeq(t, 1, Len(pre)) = pre
TrimPrefix(t, pre) == IF HasPrefix(t, pre) THEN SubSeq(t, Len(pre) + 1, Len(t)) ELSE t

\* Publish: json.Marshal(map[string]string{"payload": string(payload)}).
clientBody(payload) ==
  <<"{">> \o jsonString(payloadKey) \o <<":">> \o jsonString(payload) \o <<"}">>

\* produceHandler: the payload it stores for a request body.
producePayload(body) ==
  LET trimmed == TrimSpace(body)
      tmp == Unmarshal(trimmed)
      field == fieldOf(tmp.fields, payloadKey)
  IN IF HasPrefix(trimmed, <<"{">>) /\ tmp.ok /\ field.ok /\ field.val # << >>
       THEN field.val
       ELSE trimmed

\* consumeHandler: json.Marshal(msg) and the three lines of the SSE event.
messageJson(id, payload) ==
  <<"{">> \o jsonString(idKey) \o <<":">> \o jsonString(id) \o <<",">>
          \o jsonString(payloadKey) \o <<":">> \o jsonString(payload) \o <<",">>
          \o jsonString(createdKey) \o <<":">> \o jsonString(<<"T">>) \o <<",">>
          \o jsonString(topicKey) \o <<":">> \o jsonString(<<"t">>) \o <<",">>
          \o jsonString(partitionKey) \o <<":">> \o <<"0">> \o <<"}">>
sseEvent(id, payload) ==
  idPrefix \o id \o <<NL>> \o dataPrefix \o messageJson(id, payload) \o <<NL>>
    \o partitionPrefix \o <<"0">> \o <<NL, NL>>

\* bufio.Scanner: the lines of a text, without their line breaks.
Lines(t) ==
  LET ends == {i \in 1..Len(t) : t[i] = NL} \cup
              (IF t # << >> /\ t[Len(t)] # NL THEN {Len(t) + 1} ELSE {})
      nth(n) == CHOOSE e \in ends : Cardinality({d \in ends : d <= e}) = n
      from(e) == 1 + Max(0, CHOOSE d \in {0} \cup {c \in ends : c < e} :
                              \A c \in ends : c < e => c <= d)
  IN [n \in 1..Cardinality(ends) |-> SubSeq(t, from(nth(n)), nth(n) - 1)]

\* consumeFromPartition's scan of the lines of one event: the payload the
\* handler is called with, if it is called.
RECURSIVE scanEvent(_, _, _)
scanEvent(lines, messageID, messageData) ==
  IF lines = << >> THEN [called |-> FALSE, payload |-> << >>]
  ELSE LET line == Head(lines) IN
       IF HasPrefix(line, idPrefix)
         THEN scanEvent(Tail(lines), TrimPrefix(line, idPrefix), messageData)
       ELSE IF HasPrefix(line, dataPrefix)
         THEN scanEvent(Tail(lines), messageID, TrimPrefix(line, dataPrefix))
       ELSE IF line = << >> /\ messageID # << >> /\ messageData # << >>
         THEN LET msg == Unmarshal(messageData)
                  field == fieldOf(msg.fields, payloadKey)
              IN IF msg.ok /\ field.ok
                   THEN [called |-> TRUE, payload |-> field.val]
                   ELSE scanEvent(Tail(lines), << >>, << >>)
       ELSE scanEvent(Tail(lines), messageID, messageData)

IdleCodec ==
  [pc |-> "idle", payload |-> << >>, body |-> << >>, stored |-> << >>,
   lines |-> << >>, got |-> << >>]

\* Publish builds the request body for the payload.
CodecPublish(w, payload) ==
  /\ codec[w].pc = "idle"
  /\ codec' = [codec EXCEPT ![w] =
       [IdleCodec EXCEPT !.pc = "posted", !.payload = payload,
                         !.body = clientBody(payload)]]
  /\ UNCHANGED <<publishCounter, pub, assigned, ringVars, proxyVars,
                 brokerVars, subVars, lockVars>>

\* produceHandler reads the body and builds the message.
CodecProduce(w) ==
  /\ codec[w].pc = "posted"
  /\ codec' = [codec EXCEPT ![w].pc = "stored",
                            ![w].stored = producePayload(codec[w].body)]
  /\ UNCHANGED <<publishCounter, pub, assigned, ringVars, proxyVars,
                 brokerVars, subVars, lockVars>>

\* consumeHandler writes the event for the message.
CodecEvent(w) ==
  /\ codec[w].pc = "stored"
  /\ codec' = [codec EXCEPT ![w].pc = "sent",
                            ![w].lines = Lines(sseEvent(<<"1">>, codec[w].stored))]
  /\ UNCHANGED <<publishCounter, pub, assigned, ringVars, proxyVars,
                 brokerVars, subVars, lockVars>>

\* consumeFromPartition scans the event and calls the handler.
CodecDeliver(w) ==
  /\ codec[w].pc = "sent"
  /\ LET r == scanEvent(codec[w].lines, << >>, << >>) IN
       codec' = [codec EXCEPT ![w].pc = IF r.called THEN "handled" ELSE "skipped",
                              ![w].got = r.payload]
  /\ UNCHANGED <<publishCounter, pub, assigned, ringVars, proxyVars,
                 brokerVars, subVars, lockVars>>

\* ------------------------------------------------------ HTTPMessageQueue
\* A partition choice that forgets that the counter was incremented first.
partitionOfCurrent(current) == current % maxPartitions
\* calculatePublishPartition, after the atomic increment.
partitionOf(current) == (current - 1) % maxPartitions

\* A Publish call: its counter value and partition, the attempt of its
\* loop, the POSTs it has made (partition of the URL and what the POST met),
\* and, once it has returned (pc "idle"), whether it returned an error.
IdlePub ==
  [pc |-> "idle", current |-> 0, partition |-> 0, attempt |-> 0,
   posts |-> << >>, err |-> FALSE]

\* A last-attempt test that allows one attempt more.
lastAttemptLate(attempt) == attempt = maxRetries
\* attempt == maxRetries-1, with the loop condition attempt < maxRetries.
lastAttempt(attempt) == attempt = maxRetries - 1

\* Publish: calculatePublishPartition, whose atomic.AddUint64 hands the new
\* value to this call alone.
PublishStart(w) ==
  /\ pub[w].pc = "idle"
  /\ publishCounter < MaxPublish
  /\ LET current == publishCounter + 1 IN
       /\ publishCounter' = current
       /\ pub' = [pub EXCEPT ![w] = [pc |-> "post", current |-> current,
                                      partition |-> partitionOf(current),
                                      attempt |-> 0, posts |-> << >>,
                                      err |-> FALSE]]
       /\ assigned' = Append(assigned, partitionOf(current))
  /\ UNCHANGED <<codec, ringVars, proxyVars, brokerVars, subVars, lockVars>>

\* Publish: one POST of the retry loop, to the URL built before the loop, and
\* what it meets: nil is returned on 200, an error after the last attempt.
PublishPost(w, outcome) ==
  /\ pub[w].pc = "post"
  /\ LET posts == Append(pub[w].posts,
                          [partition |-> pub[w].partition, outcome |-> outcome])
     IN pub' = [pub EXCEPT ![w] =
          IF outcome = 200
            THEN [@ EXCEPT !.pc = "idle", !.posts = posts, !.err = FALSE]
            ELSE IF lastAttempt(pub[w].attempt)
              THEN [@ EXCEPT !.pc = "idle", !.posts = posts, !.err = TRUE]
              ELSE [@ EXCEPT !.attempt = @ + 1, !.posts = posts]]
  /\ UNCHANGED <<publishCounter, assigned, codec, ringVars, proxyVars, brokerVars, subVars, lockVars>>

\* NewHTTPMessageQueue.
ClientInit ==
  /\ publishCounter = 0
  /\ pub = [w \in Callers |-> IdlePub]
  /\ assigned = << >>
  /\ codec = [w \in Callers |-> IdleCodec]

\* ------------------------------------------- HTTPMessageQueue.Subscribe
\* Subscribe starts one consumeFromPartition goroutine for each partition
\* of [0, maxPartitions) and waits for the first error on errChan.
SubParts == 0..(maxPartitions - 1)
\* The topic and the group the client was constructed with.
subTopic == "t"
subGroup == "g1"
IdleSub == [pc |-> "connect", conn |-> "", msg |-> NoMsg, attempt |-> 0]

\* The handler returned err: the message is acknowledged only if err is nil.
shouldAck(err) == ~err

\* ackMessage: the attempt that returns the error instead of retrying.
lastAck(attempt) == attempt = ackRetries - 1

\* Subscribe returns when a goroutine has sent its error to errChan.
SubscribeReturned == \E p \in SubParts : sub[p].pc = "exit"

\* After a failed request or an ended stream the goroutine sleeps and goes
\* round its loop again.
giveUp(t) == [t EXCEPT !.pc = "exit", !.conn = ""]
reconnect(t) == [t EXCEPT !.pc = "wait", !.conn = ""]

\* http.NewRequestWithContext fails: the goroutine sends the error to
\* errChan and returns.
SubExit(p) ==
  /\ sub[p].pc = "connect"
  /\ ~urlOk
  /\ sub' = [sub EXCEPT ![p].pc = "exit"]
  /\ UNCHANGED <<stream, handled, acksFor, urlOk, cancelReq>>
  /\ UNCHANGED <<brokerVars, ringVars, proxyVars, clientVars, lockVars>>

\* client.Do fails before the broker sees the request: the goroutine sleeps.
SubConnectError(p) ==
  /\ sub[p].pc = "connect"
  /\ urlOk
  /\ sub' = [sub EXCEPT ![p] = reconnect(@)]
  /\ UNCHANGED <<stream, handled, acksFor, urlOk, cancelReq>>
  /\ UNCHANGED <<brokerVars, ringVars, proxyVars, clientVars, lockVars>>

\* The connection a new request of the client arrives on: connections have
\* no identity of their own, so it is the first one no handler is serving.
freeConn == IF cons["c1"].pc = "idle" THEN "c1" ELSE "c2"

\* GET /consume reaches the broker on connection c.  On 200 the goroutine
\* starts to scan the stream; on any other status it sleeps.
SubConnect(p, c) ==
  /\ sub[p].pc = "connect"
  /\ urlOk
  /\ c = freeConn
  /\ openStream(c, subTopic, p, subGroup)
  /\ sub' = [sub EXCEPT ![p] =
       IF Lookup(subTopic, p) THEN [@ EXCEPT !.pc = "stream", !.conn = c]
                              ELSE reconnect(@)]
  /\ stream' = [stream EXCEPT ![p] = << >>]
  /\ UNCHANGED <<handled, acksFor, urlOk, cancelReq>>
  /\ UNCHANGED <<ringVars, proxyVars, clientVars, lockVars>>

\* The sleep before the next iteration of the loop ends.
SubWake(p) ==
  /\ sub[p].pc = "wait"
  /\ sub' = [sub EXCEPT ![p].pc = "connect"]
  /\ UNCHANGED <<stream, handled, acksFor, urlOk, cancelReq>>
  /\ UNCHANGED <<brokerVars, ringVars, proxyVars, clientVars, lockVars>>

\* The broker's handler writes the event to the connection of a goroutine
\* that is still connected; the write waits while the connection is full.
SubEvent(c, p) ==
  /\ sub[p].conn = c
  /\ ~cons[c].done
  /\ Len(stream[p]) < StreamCap
  /\ stream' = [stream EXCEPT ![p] = Append(@, cons[c].msg)]
  /\ writeEvent(c)
  /\ UNCHANGED <<sub, handled, acksFor, urlOk, cancelReq>>
  /\ UNCHANGED <<ringVars, proxyVars, clientVars, lockVars>>

\* The broker's handler writes the event to a connection the client has
\* left: the event reaches nobody.
DropEvent(c) ==
  /\ cons[c].done
  /\ FetchReturn(c)

\* The broker's handler finds at its loop head that the client has left.
SessionEnd(c) ==
  /\ cons[c].done
  /\ ConsumeCancel(c)

\* scanner.Scan returns the lines of one event and json.Unmarshal decodes
\* it: the handler is called.
SubRead(p) ==
  /\ sub[p].pc = "stream"
  /\ stream[p] # << >>
  /\ LET m == Head(stream[p]) IN
       /\ sub' = [sub EXCEPT ![p].pc = "handle", ![p].msg = m]
       /\ handled' = [handled EXCEPT ![m.id] = "running"]
       /\ acksFor' = [acksFor EXCEPT ![m.id] = 0]
  /\ stream' = [stream EXCEPT ![p] = Tail(@)]
  /\ UNCHANGED <<urlOk, cancelReq>>
  /\ UNCHANGED <<brokerVars, ringVars, proxyVars, clientVars, lockVars>>

\* The handler returns; err tells whether it returned an error.
SubHandle(p, err) ==
  /\ sub[p].pc = "handle"
  /\ handled' = [handled EXCEPT ![sub[p].msg.id] = IF err THEN "err" ELSE "ok"]
  /\ sub' = [sub EXCEPT ![p] =
       IF shouldAck(err) THEN [@ EXCEPT !.pc = "ack", !.attempt = 0]
                         ELSE [@ EXCEPT !.pc = "stream", !.msg = NoMsg]]
  /\ UNCHANGED <<stream, acksFor, urlOk, cancelReq>>
  /\ UNCHANGED <<brokerVars, ringVars, proxyVars, clientVars, lockVars>>

\* ackMessage after an attempt that was not answered 200.
ackFailed(t) ==
  IF lastAck(t.attempt) THEN [t EXCEPT !.pc = "stream", !.msg = NoMsg, !.attempt = 0]
                        ELSE [t EXCEPT !.attempt = @ + 1]

\* ackMessage: client.Post fails before the broker sees the request.
SubAckError(p) ==
  /\ sub[p].pc = "ack"
  /\ acksFor' = [acksFor EXCEPT ![sub[p].msg.id] = @ + 1]
  /\ sub' = [sub EXCEPT ![p] = ackFailed(@)]
  /\ UNCHANGED <<stream, handled, urlOk, cancelReq>>
  /\ UNCHANGED <<brokerVars, ringVars, proxyVars, clientVars, lockVars>>

\* ackMessage: POST /ack reaches the broker's ackHandler; heard tells
\* whether the response reaches the client.
SubAck(p, heard) ==
  /\ sub[p].pc = "ack"
  /\ LET m == sub[p].msg IN
       /\ ackHandler(m.topic, m.partition, m.id, subGroup)
       /\ acksFor' = [acksFor EXCEPT ![m.id] = @ + 1]
  /\ sub' = [sub EXCEPT ![p] =
       IF heard /\ out'.status = 200
         THEN [@ EXCEPT !.pc = "stream", !.msg = NoMsg, !.attempt = 0]
         ELSE ackFailed(@)]
  /\ UNCHANGED <<stream, handled, urlOk, cancelReq>>
  /\ UNCHANGED <<ringVars, proxyVars, clientVars, lockVars>>

\* scanner.Scan returns false: the connection was lost or closed, or the
\* client's timeout cut the response.  What was written and not scanned is
\* gone, the broker's request context is cancelled, the goroutine sleeps.
SubStreamEnd(p) ==
  /\ sub[p].pc = "stream"
  /\ sub' = [sub EXCEPT ![p] = reconnect(@)]
  /\ stream' = [stream EXCEPT ![p] = << >>]
  /\ cons' = [cons EXCEPT ![sub[p].conn].done = TRUE]
  /\ out' = NoOut
  /\ UNCHANGED <<partVars, prod, nextId, histVars, lifeVars>>
  /\ UNCHANGED <<handled, acksFor, urlOk, cancelReq>>
  /\ UNCHANGED <<ringVars, proxyVars, clientVars, lockVars>>

\* The application wants the subscription to stop.  Close is the only
\* method it can call, and Close does nothing: no goroutine holds a context
\* that can be cancelled.
SubCancel ==
  /\ ~cancelReq
  /\ cancelReq' = TRUE
  /\ UNCHANGED <<sub, stream, handled, acksFor, urlOk>>
  /\ UNCHANGED <<brokerVars, ringVars, proxyVars, clientVars, lockVars>>

\* No Subscribe call.
NoSub ==
  /\ sub = [p \in SubParts |-> IdleSub]
  /\ stream = [p \in SubParts |-> << >>]
  /\ handled = [i \in Ids |-> "none"]
  /\ acksFor = [i \in Ids |-> 0]
  /\ urlOk = TRUE
  /\ cancelReq = FALSE

\* Subscribe has started its goroutines.
SubInit ==
  /\ sub = [p \in SubParts |-> IdleSub]
  /\ stream = [p \in SubParts |-> << >>]
  /\ handled = [i \in Ids |-> "none"]
  /\ acksFor = [i \in Ids |-> 0]
  /\ urlOk \in BOOLEAN
  /\ cancelReq = FALSE

\* ---------------------------------------------------------------------------
\* The two shared maps and their read-write mutexes.  SmartProxy.healthyBrokers
\* is guarded by SmartProxy.mu, Broker.partitions (and the per-topic maps in
\* it) by Broker.partitionsMu.  Each function below touches its map between
\* the lock and unlock calls written in its body; a function whose body has no
\* such calls touches the map holding nothing.
\* ---------------------------------------------------------------------------
Tasks == {"r1", "r2", "r3"}

NoAccess == [op |-> "", map |-> "", lock |-> "none", write |-> FALSE]

mapAccess(op, map, lock, write) ==
  [op |-> op, map |-> map, lock |-> lock, write |-> write]

\* SmartProxy: the routing lookup of /produce, /consume and /ack
spGetBroker == mapAccess("getBrokerForTopicPartition", "healthyBrokers", "R", FALSE)
\* SmartProxy.topicsHandler ranges over the map with no lock call in its body
spTopics == mapAccess("topicsHandler", "healthyBrokers", "none", FALSE)
spHealth == mapAccess("healthHandler", "healthyBrokers", "R", FALSE)
spStatus == mapAccess("statusHandler", "healthyBrokers", "R", FALSE)
spStats == mapAccess("statsHandler", "healthyBrokers", "R", FALSE)
\* SmartProxy.checkBrokerHealth assigns every endpoint's entry under Lock
spCheck == mapAccess("checkBrokerHealth", "healthyBrokers", "W", TRUE)

\* Broker.getPartition: the lookup of /produce, /consume and /ack
bGetPartition == mapAccess("getPartition", "partitions", "R", FALSE)
\* Broker.createPartitionIfNotExists: pm[partition] = p under Lock
bCreate == mapAccess("createPartitionIfNotExists", "partitions", "W", TRUE)
\* the same when the partition turns out to exist: it returns after the reads
bCreateExisting == mapAccess("createPartitionIfNotExists", "partitions", "W", FALSE)
\* Broker.topicsHandler ranges over both levels with no lock call in its body
bTopics == mapAccess("topicsHandler", "partitions", "none", FALSE)
bHealth == mapAccess("healthHandler", "partitions", "R", FALSE)
\* Broker.Close ranges over both levels with no lock call in its body
bClose == mapAccess("Close", "partitions", "none", FALSE)

MapOps == {spGetBroker, spTopics, spHealth, spStatus, spStats, spCheck,
           bGetPartition, bCreate, bCreateExisting, bTopics, bHealth, bClose}

\* functions that run in one goroutine only: the health check loop, and Close
Single == {"checkBrokerHealth", "Close"}

\* sync.RWMutex: RLock waits for a writer, Lock waits for everybody
CanLock(t, map, lock) ==
  CASE lock = "none" -> TRUE
    [] lock = "R" -> \A u \in Tasks \ {t} :
                       ~(access[u].map = map /\ access[u].lock = "W")
    [] lock = "W" -> \A u \in Tasks \ {t} :
                       ~(access[u].map = map /\ access[u].lock # "none")

\* a goroutine takes the lock its function takes and starts on the map
Enter(t, a) ==
  /\ access[t] = NoAccess
  /\ a.op \in Single => \A u \in Tasks : access[u].op # a.op
  /\ CanLock(t, a.map, a.lock)
  /\ access' = [access EXCEPT ![t] = a]
  /\ UNCHANGED <<brokerVars, ringVars, proxyVars, clientVars, subVars>>

\* it is done with the map and releases what it holds
Leave(t) ==
  /\ access[t] # NoAccess
  /\ access' = [access EXCEPT ![t] = NoAccess]
  /\ UNCHANGED <<brokerVars, ringVars, proxyVars, clientVars, subVars>>

NoLocks == access = [t \in Tasks |-> NoAccess]


\* ------------------------------------------------------- specifications
\* A process that has built no ring.
NoRing ==
  /\ hashOf = [x \in HashInputs |-> 0]
  /\ brokers = << >>
  /\ ring = << >>
  /\ sortedHashes = << >>

Init == BrokerInit /\ NoRing /\ ProxyInit /\ ClientInit /\ NoSub /\ NoLocks

\* The /ack requests of the clients: any id the broker has handed out, under
\* any group.
AckAny(tps, parts) ==
  \E topic \in tps, part \in parts, id \in 1..(nextId - 1), group \in Groups :
    Ack(topic, part, id, group)

\* The broker with one producer and one consumer connection, and the passing
\* of time; requests name the declared topics and the indexes at and above 0.
Next ==
  \/ Produce("p1", Topics, NatIdx, TimedMsgs)
  \/ Consume("c1", Topics, NatIdx)
  \/ AckAny(Topics, NatIdx)
  \/ Tick
  \/ \E k \in PKeys : Monitor(k)

Spec == Init /\ [][Next]_vars

\* One producer and one consume session while no time passes: no deadline
\* expires, so the monitor requeues nothing.  Requests name any topic.
NextUntimed ==
  \/ Produce("p1", ReqTopics, NatIdx, MaxMsgs)
  \/ Session("c1", ReqTopics, NatIdx)
  \/ AckAny(ReqTopics, NatIdx)

UntimedSpec == Init /\ [][NextUntimed]_vars

\* Requests with any topic and any index, negative ones too, from concurrent
\* producers, while no time passes.
NextIndex ==
  \/ \E p \in Producers : Produce(p, ReqTopics, PartIdx, IndexMsgs)
  \/ Session("c1", ReqTopics, PartIdx)
  \/ AckAny(ReqTopics, PartIdx)

IndexSpec == Init /\ [][NextIndex]_vars

\* The broker of Spec with a consume session that is never cancelled.
NextLive ==
  \/ Produce("p1", Topics, NatIdx, LiveMsgs)
  \/ Session("c1", Topics, NatIdx)
  \/ AckAny(Topics, NatIdx)
  \/ Tick
  \/ \E k \in PKeys : Monitor(k)

\* Time passes, every monitor goroutine runs, and the session keeps polling:
\* its receive and its return are its own steps, and its Lock of pendingMu,
\* which a scan of the monitor holds off, is granted in the end.
LiveSpec ==
  /\ Init
  /\ [][NextLive]_vars
  /\ WF_vars(Tick)
  /\ \A k \in PKeys : WF_vars(Monitor(k))
  /\ WF_vars(LoopEnter("c1"))
  /\ WF_vars(FetchRecv("c1"))
  /\ SF_vars(FetchTrack("c1"))
  /\ WF_vars(FetchReturn("c1"))

\* The broker while no time passes, with a consume request that is cancelled
\* while it waits in fetchAndTrack or at any other point, and with partitions
\* that are closed.
NextLife ==
  \/ Produce("p1", Topics, NatIdx, LifeMsgs)
  \/ Consume("c1", Topics, NatIdx)
  \/ CancelInFlight("c1")
  \/ FetchClosed("c1")
  \/ AckAny(Topics, NatIdx)
  \/ \E k \in PKeys : Close(k)

LifeSpec == Init /\ [][NextLife]_vars

\* The ring under AddBroker and RemoveBroker, for any values of hash.
NextRing == \E b \in Endpoints : AddBroker(b) \/ RemoveBroker(b)

InitRing == BrokerInit /\ RingInit /\ ProxyInit /\ ClientInit /\ NoSub /\ NoLocks

RingSpec == InitRing /\ [][NextRing]_vars

\* The proxy: requests for any key, met by any outcome of the forwarding,
\* and health-check rounds that find any set of brokers up.
NextProxy ==
  \/ \E op \in ProxyOps, key \in RouteKeys, outcomes \in Outcomes \X Outcomes :
       ProxyRequest(op, key[1], key[2], outcomes)
  \/ \E up \in SUBSET Endpoints : CheckBrokerHealth(up)

InitProxy == BrokerInit /\ SpreadRingInit /\ ProxyInit /\ ClientInit /\ NoSub /\ NoLocks

ProxySpec == InitProxy /\ [][NextProxy]_vars

\* One client whose goroutines call Publish concurrently; a POST meets any
\* outcome.
NextClient ==
  \E w \in Callers :
    \/ PublishStart(w)
    \/ \E outcome \in Outcomes : PublishPost(w, outcome)

ClientSpec == Init /\ [][NextClient]_vars

\* Payloads on their way from Publish through the broker to the handler.
NextCodec ==
  \E w \in Callers :
    \/ \E payload \in Payloads : CodecPublish(w, payload)
    \/ CodecProduce(w)
    \/ CodecEvent(w)
    \/ CodecDeliver(w)

CodecSpec == Init /\ [][NextCodec]_vars

\* One broker and one subscribed client: a producer, the goroutines of
\* Subscribe, the broker's handlers for their requests, the clock and the
\* monitor.
\* The steps of the goroutine of partition p.
SubTask(p) ==
  \/ SubExit(p)
  \/ SubConnectError(p)
  \/ SubConnect(p, freeConn)
  \/ SubWake(p)
  \/ SubRead(p)
  \/ \E err \in BOOLEAN : SubHandle(p, err)
  \/ SubAckError(p)
  \/ \E heard \in BOOLEAN : SubAck(p, heard)
  \/ SubStreamEnd(p)

\* The steps of the broker's consumeHandler on connection c.
SubSession(c) ==
  \/ LoopEnter(c)
  \/ FetchTimeout(c)
  \/ FetchRecv(c)
  \/ FetchTrack(c)
  \/ \E p \in SubParts : SubEvent(c, p)
  \/ DropEvent(c)
  \/ SessionEnd(c)

NextSub ==
  \/ Produce("p1", Topics, NatIdx, SubMsgs)
  \/ \E p \in SubParts : SubTask(p)
  \/ \E c \in Consumers : SubSession(c)
  \/ Tick
  \/ \E k \in PKeys : Monitor(k)

InitSub == BrokerInit /\ NoRing /\ ProxyInit /\ ClientInit /\ SubInit /\ NoLocks
SubSpec == InitSub /\ [][NextSub]_vars

\* A broker whose consumers never ack, with the age of every pending record.
NextAge ==
  \/ Produce("p1", Topics, NatIdx, AgeMsgs)
  \/ Consume("c1", Topics, NatIdx)
  \/ AgeTick
  \/ \E k \in PKeys : Monitor(k)

AgeSpec == Init /\ [][NextAge]_vars


\* Two consume sessions, of any groups, at the partitions of one broker, with
\* the clock and the monitors.
NextGroup ==
  \/ Produce("p1", Topics, NatIdx, AgeMsgs)
  \/ \E c \in Consumers : Session(c, Topics, NatIdx)
  \/ AckAny(Topics, NatIdx)
  \/ Tick
  \/ \E k \in PKeys : Monitor(k)

GroupSpec == Init /\ [][NextGroup]_vars


\* The same for a single message, which expires and is delivered again while
\* acks for it arrive at any moment.
NextLate ==
  \/ Produce("p1", Topics, NatIdx, LateMsgs)
  \/ \E c \in Consumers : Session(c, Topics, NatIdx)
  \/ AckAny(Topics, NatIdx)
  \/ Tick
  \/ \E k \in PKeys : Monitor(k)

LateSpec == Init /\ [][NextLate]_vars


\* The broker with its clock and monitors, and with partitions that are
\* closed at any moment: while a /produce is between its persist and its
\* send, while a scan is under way, or while a session waits.
NextClose ==
  \/ Produce("p1", Topics, NatIdx, LifeMsgs)
  \/ Session("c1", Topics, NatIdx)
  \/ FetchClosed("c1")
  \/ Tick
  \/ \E k \in PKeys : Monitor(k)
  \/ \E k \in PKeys : Close(k)

CloseSpec == Init /\ [][NextClose]_vars

\* goroutines of the proxy and of the broker entering and leaving the
\* functions that touch the two shared maps
NextLock ==
  \E t \in Tasks :
    \/ \E a \in MapOps : Enter(t, a)
    \/ Leave(t)

LockSpec == Init /\ [][NextLock]_vars


\* The same client without the clock, whose application asks at some moment
\* for the subscription to stop.  Every goroutine of the client keeps
\* running, and so does every handler of the broker.
NextCancel ==
  \/ Produce("p1", Topics, NatIdx, SubMsgs)
  \/ \E p \in SubParts : SubTask(p)
  \/ \E c \in Consumers : SubSession(c)
  \/ SubCancel

CancelSpec ==
  /\ InitSub
  /\ [][NextCancel]_vars
  /\ \A p \in SubParts : WF_vars(SubTask(p))
  /\ \A c \in Consumers : WF_vars(SubSession(c))

\* ------------------------------------------------------------------ claims
\* The step in which producer p's enqueue ends and its response is written.
Responds(p) == prod[p].pc = "push" /\ prod'[p].pc = "idle"
\* The step in which fetchAndTrack of consumer c returns its message.
Returns(c) == cons[c].pc = "send" /\ cons'[c].pc = "loop"
\* The messages of partition k whose /produce was answered 200, in log order.
Accepted(k) ==
  SelectSeq(file[k], LAMBDA m : m.id \in DOMAIN resp /\ resp[m.id].status = 200)

C2_Fifo ==
  [][\A c \in Consumers :
       Returns(c) =>
         LET m == cons[c].msg
             acc == Accepted(KeyOf(m)) IN
           /\ m.id \notin returned
           /\ \E n \in 1..Len(acc) :
                /\ acc[n] = m
                /\ \A i \in 1..(n - 1) : acc[i].id \in returned]_vars

C2_Witness == Cardinality(returned) >= 3

\* Some fetchAndTrack has recorded message id as pending and not yet returned.
Returning(id) == \E c \in Consumers : cons[c].pc = "send" /\ cons[c].msg.id = id
\* Some fetchAndTrack has taken message id from the queue and not yet recorded it.
Dequeued(id) == \E c \in Consumers : cons[c].pc = "track" /\ cons[c].msg.id = id
InQueue(id) == \E k \in PKeys : \E i \in 1..Len(queue[k]) : queue[k][i].id = id
IsPending(id) == \E k \in PKeys : id \in DOMAIN pending[k]
\* The step is ackHandler's, for this partition, id and group.
Acks(k, id, group) == Ack(k[1], k[2], id, group)
\* The step leaves every partition's queue, pending map and log as they were.
PartitionsUnchanged == UNCHANGED <<partitions, queue, pending, file>>

\* A session on partition k is polling.
Polling(k) == \E c \in Consumers : cons[c].pc # "idle" /\ cons[c].key = k
\* Message id was returned by fetchAndTrack and its record has outlived its
\* deadline without an ack, on a partition that a session is polling.
Overdue(id) ==
  \E k \in PKeys :
    /\ id \in DOMAIN pending[k]
    /\ Expired(pending[k][id])
    /\ id \in returned
    /\ ~Returning(id)
    /\ Polling(k)

\* C3 as claimed: a returned message that was not acked before its deadline
\* is, unless the monitor finds the queue full, returned again by a later
\* fetchAndTrack of a session that keeps polling.
C3_RedeliveredAfterDeadline ==
  \A id \in 1..LiveMsgs : Overdue(id) ~> (Returning(id) \/ id \in lost)

\* C3, amended: at-least-once redelivery. A returned message whose record
\* has outlived its deadline is returned again by a later fetchAndTrack of a
\* session that keeps polling, unless the monitor finds the queue full or an
\* ack removes the record before the monitor's next scan: ack does not look
\* at the deadline.
C3_RedeliveredUnlessAcked ==
  \A id \in 1..LiveMsgs :
    Overdue(id) ~> (Returning(id) \/ id \in lost \/ id \in acked)

\* A message that was returned before, and never acked, is returned again.
C3_Witness == \E id \in returned \ acked : Returning(id)

\* C4 as claimed: no fetchAndTrack returns a message whose id has been acked.
C4_NoReturnAfterAck ==
  [][\A c \in Consumers : Returns(c) => cons[c].msg.id \notin acked]_vars

\* C4, amended: once ack has returned true for an id, the id is neither in a
\* queue, nor taken from a queue and not yet recorded, nor pending: only a
\* fetchAndTrack that recorded it before the ack can still return it.
C4_AckedLeavesMemory ==
  \A id \in acked : ~InQueue(id) /\ ~Dequeued(id) /\ ~IsPending(id)

\* A late ack has removed the record of a redelivery that is about to return.
C4_Witness == \E id \in acked : Returning(id)

\* C5: group exclusivity of ack. An ack for an id that is pending under
\* another group is answered 400 and changes nothing: the record keeps its
\* message, deadline and group, and every queue and log is as before.
C5_WrongGroupAck ==
  [][out'.op = "ack" =>
       \A k \in PKeys : \A id \in DOMAIN pending[k] :
         \A group \in Groups \ {pending[k][id].group} :
           Acks(k, id, group) =>
             /\ out' = Http("ack", 400, "ack failed (unknown id or wrong group)")
             /\ acked' = acked
             /\ PartitionsUnchanged]_vars

\* The one message there is is pending and an ack for it has just been
\* refused: the ack named another group than the record's.
C5_Witness ==
  /\ nextId = 2
  /\ 1 \in DOMAIN pending[<<"t", 0>>]
  /\ out = Http("ack", 400, "ack failed (unknown id or wrong group)")

\* Message id was never handed to a consumer.
NeverDelivered(id) == id \notin returned /\ ~Returning(id)

\* C6: an ack succeeds at most once per delivery. An ack for an id that was
\* acked before, under any group, and an ack for an id that was never
\* delivered, are answered 400 and change nothing.
C6_AckOnce ==
  [][out'.op = "ack" =>
       \A id \in {i \in Ids : i \in acked \/ NeverDelivered(i)} :
         \A k \in PKeys, group \in Groups :
           (Lookup(k[1], k[2]) /\ Acks(k, id, group)) =>
             /\ out' = Http("ack", 400, "ack failed (unknown id or wrong group)")
             /\ acked' = acked
             /\ PartitionsUnchanged]_vars

\* The one message there is was acked, and a further ack has just been refused.
C6_Witness ==
  /\ nextId = 2
  /\ acked = {1}
  /\ out = Http("ack", 400, "ack failed (unknown id or wrong group)")

\* The step is a successful ack of id.
AckedNow(id) == out' = Http("ack", 200, "ok") /\ id \in acked' \ acked

\* C7: delivered implies pending. When fetchAndTrack records a message, the
\* pending map holds the message, the deadline (now + visibility timeout) and
\* the session's group under its id; and a record stays, with its message and
\* group, its deadline only running down with time, over every step that is
\* not a successful ack of the id, until its deadline has elapsed.
C7_DeliveredIsPending ==
  [][/\ \A c \in Consumers :
          (cons[c].pc = "track" /\ cons'[c].pc = "send") =>
            LET m == cons[c].msg IN
              /\ m.id \in DOMAIN pending'[cons[c].key]
              /\ pending'[cons[c].key][m.id] =
                   [msg |-> m, deadline |-> VisTO, group |-> cons[c].group]
     /\ \A k \in PKeys : \A id \in DOMAIN pending[k] :
          (pending[k][id].deadline >= 0 /\ ~AckedNow(id)) =>
            /\ id \in DOMAIN pending'[k]
            /\ pending'[k][id].msg = pending[k][id].msg
            /\ pending'[k][id].group = pending[k][id].group
            /\ pending'[k][id].deadline \in
                 {pending[k][id].deadline, pending[k][id].deadline - 1}]_vars

\* A returned message whose deadline is reached, not passed, is still pending.
C7_Witness ==
  \E k \in PKeys : \E id \in DOMAIN pending[k] :
    pending[k][id].deadline = 0 /\ id \in returned

\* C8: every accepted publish is eventually delivered. A message whose
\* /produce was answered 200 is, once a session polls its partition and keeps
\* polling, returned by fetchAndTrack.
C8_AcceptedIsDelivered ==
  \A id \in 1..LiveMsgs :
    (/\ id \in DOMAIN resp
     /\ resp[id].status = 200
     /\ Polling(KeyOf(resp[id].msg))) ~> id \in returned

\* The last of the accepted messages has been returned.
C8_Witness ==
  /\ LiveMsgs \in DOMAIN resp
  /\ resp[LiveMsgs].status = 200
  /\ LiveMsgs \in returned

\* C9: queue-full rejection. A /produce whose push finds the queue at its
\* capacity is answered 500 with a body that mentions "queue full", and
\* leaves queue and pending as they were, its line being in the log already;
\* a push that finds room appends the message and is answered 200; no queue
\* ever holds more than its capacity.
C9_QueueFull ==
  [][/\ \A p \in Producers :
          Responds(p) =>
            LET m == prod[p].msg
                k == KeyOf(m) IN
              IF Len(queue[k]) = QueueCap
                THEN /\ out' = Http("produce", 500, "enqueue failed: queue full")
                     /\ queue' = queue
                     /\ pending' = pending
                     /\ m \in SeqToSet(file'[k])
                ELSE /\ out'.status = 200
                     /\ queue'[k] = Append(queue[k], m)
     /\ \A k \in PKeys : Len(queue'[k]) <= QueueCap]_vars

\* A produce was refused for a full queue and, after a fetch made room, a
\* later one to the same partition was accepted.
C9_Witness ==
  \E i, j \in DOMAIN resp :
    /\ i < j
    /\ resp[i].status = 500
    /\ resp[j].status = 200
    /\ KeyOf(resp[i].msg) = KeyOf(resp[j].msg)

\* C10: partition index validation on produce. Every partition the broker
\* holds has an index within the declared range of its topic, and nothing is
\* logged or queued under an index outside of it.
C10_IndexValidated ==
  /\ \A t \in Topics : partitions[t] \subseteq 0..(topics[t] - 1)
  /\ \A k \in PKeys :
       k[2] \notin 0..(topics[k[1]] - 1) => file[k] = << >> /\ queue[k] = << >>

\* No Partition object was ever made for (topic, part).
NeverCreated(topic, part) ==
  <<topic, part>> \notin PKeys \/ created[<<topic, part>>] = 0
\* The step is the start of a /consume, or an /ack, for (topic, part).
ConsumesOrAcks(topic, part) ==
  \/ \E c \in Consumers, group \in Groups : ConsumeStart(c, topic, part, group)
  \/ \E id \in Ids, group \in Groups : Ack(topic, part, id, group)

\* C11: only produce creates partitions. A /consume or an /ack for a (topic,
\* partition) for which no Partition was created is answered 400, and it
\* leaves the partition map as it was and makes no queue, pending map, log
\* or monitor; this holds for every such request, until a /produce has
\* created the partition.
C11_OnlyProduceCreates ==
  [][\A topic \in ReqTopics, part \in PartIdx :
       (NeverCreated(topic, part) /\ ConsumesOrAcks(topic, part)) =>
         /\ out'.status = 400
         /\ out'.op \in {"consume", "ack"}
         /\ UNCHANGED <<partitions, created, queue, pending, file, ticker,
                        monitor, cons>>]_vars

\* A /consume or /ack was refused for its partition while another partition
\* of the topic existed.
C11_Witness ==
  /\ out.op \in {"consume", "ack"}
  /\ out.status = 400
  /\ out.body = "partition does not exist"
  /\ partitions["t"] # {}

\* C12: partition creation race. However concurrent /produce requests to one
\* (topic, partition) interleave, newPartition is called at most once for it:
\* a partition in the map has exactly one Partition object (one queue, one
\* log handle, one monitor), a partition not in the map has none, and every
\* message answered 200 is in that object's queue or pending map, in the
\* hands of a fetchAndTrack, or acked.
C12_OnePartition ==
  /\ \A k \in PKeys : created[k] = IF k[2] \in partitions[k[1]] THEN 1 ELSE 0
  /\ \A id \in DOMAIN resp :
       resp[id].status = 200 =>
         LET k == KeyOf(resp[id].msg) IN
           \/ resp[id].msg \in SeqToSet(queue[k])
           \/ id \in DOMAIN pending[k]
           \/ Dequeued(id)
           \/ id \in acked

\* Two produce requests found the partition missing; one has created it and
\* the other is about to take the write lock.
C12_Witness ==
  \E p, q \in Producers :
    /\ prod[p].pc = "create"
    /\ prod[q].pc \in {"persist", "push"}
    /\ KeyOf(prod[p].msg) = KeyOf(prod[q].msg)
    /\ created[KeyOf(prod[p].msg)] = 1

\* Consumer c waits in the select of fetchAndTrack.
InFetch(c) == cons[c].pc = "fetch"
\* The step in which the select of c's fetchAndTrack takes the receive.
Receives(c) == InFetch(c) /\ cons'[c].pc = "track"

\* C13 as claimed: shutdown terminates consumers with an error. A
\* fetchAndTrack that waits on a partition after Partition.Close never takes
\* a message, or the zero Message, from the queue, so that nothing is added
\* to the pending map and no SSE event is written: it returns the error
\* `partition closed`.
C13_ClosedNeverDelivers ==
  [][\A c \in Consumers :
       (InFetch(c) /\ closed[cons[c].key]) => ~Receives(c)]_vars

\* C14 as claimed: consume cancellation. Once the request context of a
\* session is cancelled while its fetchAndTrack is in flight, that call
\* takes no message from the queue of its open partition, so nothing
\* becomes pending for the cancelled session.
C14_CancelledNeverReceives ==
  [][\A c \in Consumers :
       (InFetch(c) /\ cons[c].done /\ ~closed[cons[c].key]) => ~Receives(c)]_vars

\* The step is a request handler of the proxy.
Routes == pout'.op # "" /\ stats'.total = stats.total + 1

C16_FailoverAndRecovery ==
  [][Routes =>
       LET owner == GetBrokerByTopicPartition(pout'.key[1], pout'.key[2]) IN
         /\ healthyBrokers[owner] => pout'.target = owner
         /\ (~healthyBrokers[owner] /\ \E e \in Endpoints : healthyBrokers[e]) =>
              healthyBrokers[pout'.target]]_vars

\* A key that was routed away from its owner is routed to the owner again.
C16_Witness ==
  /\ pout.op # ""
  /\ pout.key \in rerouted
  /\ pout.target = GetBrokerByTopicPartition(pout.key[1], pout.key[2])
  /\ healthyBrokers[pout.target]
  /\ stats.failures > 0

\* C17 as claimed: no healthy broker is an error. A request that arrives
\* while no endpoint of the broker list is marked healthy is answered 503
\* and is not forwarded to any broker.
C17_NoHealthyIsError ==
  [][((\A e \in Endpoints : ~healthyBrokers[e]) /\ pout'.op # "") =>
       /\ pout'.status = 503
       /\ pout'.attempts = 0
       /\ stats'.total = stats.total]_vars

\* The owner of key K in the ring that buildRing makes of the broker list bs.
OwnerAfter(bs, K) == ownerIn(bs, ringOf(bs), sortedOf(bs), K)
\* Broker b is in ch.brokers.
Present(b) == \E i \in 1..Len(brokers) : brokers[i] = b
\* What AddBroker and RemoveBroker by themselves may do to the owner of a
\* key: an AddBroker(b) moves it to b or not at all, and not at all if b
\* is present already; a RemoveBroker(b) moves it only if it was b.
OneChangeStable ==
  \A b \in Endpoints, K \in RouteKeys :
    /\ AddBroker(b) => GetBrokerByKey(K)' \in {GetBrokerByKey(K), b}
    /\ (AddBroker(b) /\ Present(b)) => GetBrokerByKey(K)' = GetBrokerByKey(K)
    /\ RemoveBroker(b) =>
         (GetBrokerByKey(K)' # GetBrokerByKey(K) => GetBrokerByKey(K) = b)
\* AddBroker(b) and then RemoveBroker(b) give every key its owner back.
RoundTrip(b) ==
  \A K \in RouteKeys :
    OwnerAfter(removeBroker(addBroker(brokers, b), b), K) = GetBrokerByKey(K)

\* C18 as claimed: ring stability under membership change. For every key
\* and every broker list, AddBroker(B) moves a key only to B, and not at all
\* if B is present; RemoveBroker(B) moves only the keys B owned; and
\* AddBroker(B) followed by RemoveBroker(B) leaves every owner unchanged,
\* for every broker B.
C18_RingStable ==
  /\ [][OneChangeStable]_vars
  /\ [](\A b \in Endpoints : RoundTrip(b))

\* C18, amended: the same, with the round trip of AddBroker(B) and
\* RemoveBroker(B) for a broker B that is not in the list: for a B that is,
\* AddBroker does nothing and RemoveBroker takes B out.
C18_RingStableForNewBroker ==
  /\ [][OneChangeStable]_vars
  /\ [](\A b \in Endpoints : ~Present(b) => RoundTrip(b))

\* A broker was removed and added again: it is last in the list, it owns a
\* key, and another broker is absent.
C18_Witness ==
  /\ Len(brokers) = 2
  /\ brokers[2] = "b0"
  /\ \E K \in RouteKeys : GetBrokerByKey(K) = "b0"
  /\ \E K \in RouteKeys : GetBrokerByKey(K) # OwnerAfter(brokerEndpoints, K)

\* The step is a request handler of the proxy whose first forwarding attempt
\* meets a transport error.
ForwardFails ==
  \E op \in ProxyOps, key \in RouteKeys, later \in Outcomes :
    ProxyRequest(op, key[1], key[2], <<TransportError, later>>)

\* C19: proxy forwarding failure. A request whose forwarding attempt fails
\* with a transport error is answered 502 after that one attempt, whatever a
\* second attempt would meet; it is recorded as one request and one failed
\* request, and the health map stays as it was.
C19_ForwardFailure ==
  [][ForwardFails =>
       /\ pout'.status = 502
       /\ pout'.attempts = 1
       /\ stats'.total = stats.total + 1
       /\ stats'.failed = stats.failed + 1
       /\ stats'.success = stats.success
       /\ stats'.failures = stats.failures
       /\ healthyBrokers' = healthyBrokers]_vars

\* A request was answered 502 and its target is still marked healthy.
C19_Witness ==
  /\ pout.status = 502
  /\ pout.attempts = 1
  /\ stats.failed = 1
  /\ healthyBrokers[pout.target]

\* The number of the publishes a..b, in the order of the increments, that
\* chose partition p.
CountOn(p, a, b) == Cardinality({n \in a..b : assigned[n] = p})

\* C20: round-robin partition selection. The k-th Publish call, counted
\* from 0 in the order of the atomic increments, targets partition
\* k mod maxPartitions and keeps it through its retries; no two calls hold
\* the same counter value; so any maxPartitions * j consecutive publishes
\* put j messages on each partition.
C20_RoundRobin ==
  /\ Len(assigned) = publishCounter
  /\ \A n \in 1..Len(assigned) : assigned[n] = (n - 1) % maxPartitions
  /\ \A w \in Callers :
       pub[w].pc = "post" =>
         /\ pub[w].current \in 1..publishCounter
         /\ pub[w].partition = (pub[w].current - 1) % maxPartitions
         /\ \A v \in Callers \ {w} :
              pub[v].pc = "post" => pub[v].current # pub[w].current
  /\ \A a \in 1..Len(assigned), j \in 1..Len(assigned) :
       a + maxPartitions * j - 1 <= Len(assigned) =>
         \A p \in 0..(maxPartitions - 1) :
           CountOn(p, a, a + maxPartitions * j - 1) = j

\* Two Publish calls are in flight at once, on different partitions, one of
\* them in a retry, after two full rounds of increments.
C20_Witness ==
  /\ publishCounter = 2 * maxPartitions
  /\ \A w \in Callers : pub[w].pc = "post"
  /\ \E w, v \in Callers : pub[w].partition # pub[v].partition
  /\ \E w \in Callers : pub[w].attempt > 0

\* The Publish call of w has returned.
Returned(w) == pub[w].pc = "idle" /\ pub[w].posts # << >>
\* The POSTs of w's call that were not answered 200.
FailedPosts(w) == {n \in 1..Len(pub[w].posts) : pub[w].posts[n].outcome # 200}

\* C21: Publish retry. A Publish call makes at most 3 POSTs, all to the
\* partition chosen at its start; only its last POST can have been answered
\* 200, and then it has returned nil; it has returned an error exactly when
\* it made 3 POSTs and none was answered 200.
C21_PublishRetry ==
  \A w \in Callers :
    LET posts == pub[w].posts IN
      /\ Len(posts) <= 3
      /\ \A n \in 1..Len(posts) :
           /\ posts[n].partition = (pub[w].current - 1) % maxPartitions
           /\ n < Len(posts) => posts[n].outcome # 200
      /\ pub[w].pc = "post" => FailedPosts(w) = 1..Len(posts)
      /\ Returned(w) =>
           /\ pub[w].err <=> (Len(posts) = 3 /\ FailedPosts(w) = 1..3)
           /\ ~pub[w].err <=> posts[Len(posts)].outcome = 200

\* One call has returned an error after a transport error and a 500, and
\* another has returned nil on its second POST.
C21_Witness ==
  \E w, v \in Callers :
    /\ Returned(w) /\ pub[w].err
    /\ \E n, o \in 1..3 : /\ pub[w].posts[n].outcome = TransportError
                            /\ pub[w].posts[o].outcome = 500
    /\ Returned(v) /\ ~pub[v].err /\ Len(pub[v].posts) = 2

\* The step in which goroutine p sends one POST /ack.
AckSent(p) == sub[p].pc = "ack" /\ sub'[p] # sub[p]
\* The step in which the handler called by goroutine p returns; err as given.
HandlerReturns(p, err) ==
  /\ sub[p].pc = "handle"
  /\ handled'[sub[p].msg.id] = (IF err THEN "err" ELSE "ok")
\* The broker still holds message id for a delivery to come or under way.
Retained(id) == InQueue(id) \/ Dequeued(id) \/ IsPending(id)

\* C22: ack follows the handler's outcome. For every event the client
\* decodes, POST /ack is sent for its id exactly when the handler returned
\* no error; after an error no ack is sent for that delivery, the goroutine
\* goes on scanning the stream, and the message stays with the broker, pending
\* until the visibility timeout requeues it.
C22_AckFollowsHandler ==
  /\ [][\A p \in SubParts :
          /\ AckSent(p) => handled[sub[p].msg.id] = "ok"
          /\ HandlerReturns(p, FALSE) => sub'[p].pc = "ack"
          /\ HandlerReturns(p, TRUE) =>
               /\ sub'[p].pc = "stream"
               /\ UNCHANGED <<pending, acked, acksFor>>]_vars
  /\ [](\A id \in Ids : handled[id] = "err" => acksFor[id] = 0 /\ Retained(id))

\* C23: cancellation of Subscribe. The client holds one context for all its
\* partition goroutines: once the application cancels the subscription, every
\* goroutine leaves its reconnect loop and Subscribe returns.
C23_CancelStops ==
  cancelReq ~> ((\A p \in SubParts : sub[p].pc = "exit") /\ SubscribeReturned)

\* The step in which goroutine p meets a connection error, an answer other
\* than 200, or the end of its stream.
Fails(p) ==
  /\ sub[p].pc \in {"connect", "stream"}
  /\ urlOk
  /\ sub'[p].pc \notin {sub[p].pc, "handle"}
  /\ ~(sub[p].pc = "connect" /\ sub'[p].pc = "stream")

\* C24: the consumer reconnects for ever. Subscribe runs one goroutine for
\* each partition of [0, maxPartitions). A goroutine returns only when its
\* request cannot be built; after a connection error, a status other than
\* 200 or the end of the stream it sleeps and then sends GET /consume for
\* its own partition again, and its failure changes no other goroutine.
C24_Reconnects ==
  /\ [][\A p \in SubParts :
          /\ sub'[p].pc = "exit" /\ sub[p].pc # "exit" =>
               sub[p].pc = "connect" /\ ~urlOk
          /\ Fails(p) =>
               /\ sub'[p].pc = "wait"
               /\ \A q \in SubParts \ {p} : sub'[q] = sub[q]
          /\ sub[p].pc = "wait" /\ sub'[p] # sub[p] => sub'[p].pc = "connect"
          /\ sub[p].pc = "connect" /\ sub'[p].pc = "stream" =>
               /\ cons[sub'[p].conn].pc = "idle"
               /\ cons'[sub'[p].conn].key = <<subTopic, p>>
               /\ cons'[sub'[p].conn].group = subGroup]_vars
  /\ [](DOMAIN sub = 0..(maxPartitions - 1))

\* The goroutine of partition 0 streams on its second connection while the
\* handler of the first, which it lost, still runs; the goroutine of
\* partition 1, refused by the broker, sleeps.
C24_Witness ==
  /\ sub[0].pc = "stream"
  /\ sub[0].conn = "c2"
  /\ cons["c1"].done
  /\ cons["c2"].key = <<subTopic, 0>>
  /\ sub[1].pc = "wait"

\* C25: round trip of the payload. A payload published through the client's
\* JSON body is stored by the broker and handed to the consumer's handler
\* exactly as it was published; the empty payload, payloads with white space
\* around them and payloads that are JSON objects included.
C25_RoundTrip ==
  \A w \in Callers :
    /\ codec[w].pc \in {"stored", "sent", "handled"} =>
         codec[w].stored = codec[w].payload
    /\ codec[w].pc # "skipped"
    /\ codec[w].pc = "handled" => codec[w].got = codec[w].payload

\* The ids whose records the step takes off the pending map of partition k.
Removed(k) == DOMAIN pending[k] \ DOMAIN pending'[k]

\* C26: a requeue goes to the tail. The monitor sends an expired message
\* behind every message that is in the queue at that moment; no step changes
\* the order of the messages in a queue, and fetchAndTrack takes the oldest,
\* so the requeued message is delivered after all of them.
C26_RequeueAtTail ==
  [][\A k \in PKeys :
       /\ \A id \in Removed(k) :
            monitor[k].pc = "scan" /\ ~QueueFull(queue[k]) =>
              queue'[k] = Append(queue[k], pending[k][id].msg)
       /\ queue'[k] # queue[k] =>
            \/ /\ queue[k] # << >>
               /\ queue'[k] = Tail(queue[k])
               /\ \E c \in Consumers :
                    /\ cons[c].pc = "fetch" /\ cons'[c].pc = "track"
                    /\ cons'[c].msg = Head(queue[k])
            \/ /\ Len(queue'[k]) = Len(queue[k]) + 1
               /\ SubSeq(queue'[k], 1, Len(queue[k])) = queue[k]]_vars

\* A requeued message waits behind a message that was never delivered.
C26_Witness ==
  \E k \in PKeys :
    /\ Len(queue[k]) = 2
    /\ queue[k][2].id \in returned
    /\ NeverDelivered(queue[k][1].id)

\* The ids whose records the step puts into the pending map of partition k.
Added(k) == DOMAIN pending'[k] \ DOMAIN pending[k]
\* Message id was enqueued: its /produce was answered 200.
Enqueued(id) == id \in DOMAIN resp /\ resp[id].status = 200

\* C27: the life cycle of a message. An enqueued message is in the queue,
\* held by a fetchAndTrack in progress or pending, unless an ack succeeded
\* for it or the monitor found the queue full when requeueing it. A pending
\* record is created only by fetchAndTrack, and removed only by a successful
\* ack or by the monitor after the deadline.
C27_LifeCycle ==
  /\ [](\A id \in Ids :
          Enqueued(id) =>
            InQueue(id) \/ Dequeued(id) \/ IsPending(id)
              \/ id \in acked \/ id \in lost)
  /\ [][/\ \A k \in PKeys :
            /\ \A id \in Added(k) :
                 \E c \in Consumers :
                   /\ cons[c].pc = "track" /\ cons'[c].pc = "send"
                   /\ cons[c].key = k /\ cons[c].msg.id = id
            /\ \A id \in Removed(k) :
                 \/ AckedNow(id)
                 \/ monitor[k].pc = "scan" /\ pending[k][id].deadline < 0
        /\ \A id \in acked' \ acked : AckedNow(id) /\ IsPending(id)
        /\ \A id \in lost' \ lost :
             \E k \in PKeys :
               monitor[k].pc = "scan" /\ id \in Removed(k) /\ QueueFull(queue[k])]_vars

\* Both ends have been reached: one message was acked, another was lost to
\* a full queue, a third is still pending.
C27_Witness ==
  \E i, j, l \in Ids :
    /\ i \in acked /\ ~InQueue(i) /\ ~IsPending(i)
    /\ j \in lost /\ ~InQueue(j) /\ ~IsPending(j)
    /\ IsPending(l)

\* C28: no early redelivery. The monitor takes a record off the pending map,
\* and requeues its message, only when the time of the scan is strictly
\* after the record's deadline; while the deadline of a delivery has not
\* passed, its message is in no queue and in no other fetchAndTrack.
C28_NoEarlyRedelivery ==
  /\ [][\A k \in PKeys :
          monitor[k].pc = "scan" =>
            \A id \in Removed(k) : pending[k][id].deadline < 0]_vars
  /\ [](\A k \in PKeys : \A id \in DOMAIN pending[k] :
          pending[k][id].deadline >= 0 => ~InQueue(id) /\ ~Dequeued(id))

\* A message is being returned for the second time, under a fresh deadline.
C28_Witness ==
  \E c \in Consumers :
    /\ cons[c].pc = "send"
    /\ cons[c].msg.id \in returned
    /\ pending[cons[c].key][cons[c].msg.id].deadline = VisTO

\* C29: the monitor's period. The monitor scans at least twice in every
\* visibility timeout, so a message that is not acked is requeued no later
\* than one and a half timeouts after its delivery: no pending record is
\* older than that.
C29_RequeuedInTime ==
  \A k \in PKeys : \A id \in DOMAIN pending[k] :
    2 * Age(pending[k][id]) <= 3 * VisTO

\* The step is one round of checkBrokerHealth.
HealthRound == stats'.checks = stats.checks + 1
\* The endpoints whose health the step changes, in either direction.
Flipped == {e \in Endpoints : healthyBrokers'[e] # healthyBrokers[e]}

\* C30: health transitions are counted. A round of health checks adds to the
\* proxy's failure statistics one for every endpoint whose state it changes,
\* from healthy to unhealthy or back, and nothing for the endpoints whose
\* state stays as it was.
C30_TransitionsCounted ==
  [][HealthRound => stats'.failures = stats.failures + Cardinality(Flipped)]_vars


\* two goroutines are on map m at once and one of them writes it
Racing(m) ==
  \E t, u \in Tasks :
    /\ t # u
    /\ access[t].map = m /\ access[u].map = m
    /\ access[t].write \/ access[u].write

\* C31: every read and write of the proxy's health map, in every request
\* handler and in the health check, happens under the proxy's read-write
\* mutex, so that no handler reads the map while the health check writes it.
C31_HealthMapRaceFree == ~Racing("healthyBrokers")

\* C32: every read of the broker's partition map holds the read-write mutex at
\* least in read mode and the lazy creation holds it in write mode, so that no
\* handler iterates or reads the map while a /produce inserts a partition.
C32_PartitionMapRaceFree == ~Racing("partitions")


\* the counter a map of ProxyStats keeps under key k
CountAt(m, k) == IF k \in DOMAIN m THEN m[k] ELSE 0

\* C33: for every endpoint E of the broker list the counters kept under key E
\* add up to the number of requests forwarded to E (successes plus errors),
\* and TotalRequests = SuccessfulRequests + FailedRequests = RequestCount
\* whenever no recordRequest is in progress.
C33_BrokerCounters ==
  /\ \A e \in Endpoints :
       CountAt(stats.brokerRequestCounts, endpointKey(e))
         + CountAt(stats.brokerErrors, endpointKey(e)) = forwarded[e]
  /\ stats.total = stats.success + stats.failed
  /\ stats.total = stats.requestCount


\* goroutine c has received a message and wants pendingMu to record it
WantsPendingMu(c) == cons[c].pc = "track"
\* the monitor of partition k holds pendingMu
HoldsPendingMu(k) == monitor[k].pc = "scan"

Copies(id) ==
  Cardinality({x \in PKeys \X (1..QueueCap) :
                 x[2] <= Len(queue[x[1]]) /\ queue[x[1]][x[2]].id = id})
    + Cardinality({c \in Consumers : cons[c].pc = "track" /\ cons[c].msg.id = id})
    + Cardinality({k \in PKeys : id \in DOMAIN pending[k]})

\* C35: in every state each message id is held at most once in memory: never
\* twice in a queue, never in a queue and in the pending set, never in either
\* and in a fetchAndTrack call in progress.
C35_NoDuplicate == \A id \in Ids : Copies(id) <= 1

\* a message that was delivered and became pending is back in the queue
C35_Witness ==
  \E id \in returned : InQueue(id) /\ ~IsPending(id) /\ Copies(id) = 1


\* a record of id was stored at some time: the message has been delivered
WasDelivered(id) == IsPending(id) \/ id \in returned \/ id \in acked
\* the step in which the select of c's fetchAndTrack receives message id
ReceivesId(c, id) ==
  cons[c].pc = "fetch" /\ cons'[c].pc = "track" /\ cons'[c].msg.id = id
\* the step in which a monitor sends the message of an expired record back
Requeues(id) ==
  \E k \in PKeys : /\ monitor[k].pc = "scan"
                   /\ id \in monitor[k].todo /\ id \notin monitor'[k].todo
                   /\ Expired(pending[k][id])

\* C36: the sessions of a partition take from its one queue, whatever their
\* groups: a receive hands the head of the partition's queue to one session
\* and takes it out of the queue, no other fetchAndTrack and no pending
\* record holding it; and a message that was delivered comes into a queue again, where a
\* session of another group can receive it, only by the monitor's requeue of
\* its expired record.
C36_GroupsCompete ==
  [][\A id \in Ids :
       /\ \A c \in Consumers :
            ReceivesId(c, id) =>
              /\ queue[cons[c].key] # << >> /\ Head(queue[cons[c].key]).id = id
              /\ ~InQueue(id)'
              /\ ~IsPending(id)
              /\ ~Dequeued(id)
       /\ WasDelivered(id) /\ ~InQueue(id) /\ InQueue(id)' => Requeues(id)]_vars

\* a session of group g2 holds one message of a partition while a session of
\* group g1 on the same partition holds the next one
C36_Witness ==
  \E k \in PKeys :
    /\ cons["c1"].key = k /\ cons["c2"].key = k
    /\ cons["c1"].group = "g1" /\ cons["c2"].group = "g2"
    /\ cons["c1"].pc = "send" /\ cons["c2"].pc = "send"
    /\ cons["c1"].msg.id # cons["c2"].msg.id


\* the pending set of partition k holds id under group g: its latest delivery
\* went to a session of g and has neither been acked nor requeued
PendingFor(k, id, g) == id \in DOMAIN pending[k] /\ pending[k][id].group = g

\* C37: an ack names an id and a group, not a delivery.  When the id is
\* pending under the group, from whichever delivery, the ack succeeds and
\* removes the record, after which the broker holds the message nowhere, so
\* that it is never delivered again; when the id is in the queue after a
\* requeue, or received by a fetchAndTrack that has not recorded it yet, the
\* ack fails and the message stays where it is.
C37_LateAck ==
  /\ [][\A k \in PKeys, id \in Ids, g \in Groups :
          Acks(k, id, g) =>
            IF PendingFor(k, id, g)
              THEN out'.status = 200 /\ Copies(id)' = 0
              ELSE /\ out'.status = 400
                   /\ InQueue(id) => InQueue(id)'
                   /\ Dequeued(id) => Dequeued(id)'
                   /\ UNCHANGED <<queue, pending>>]_vars
  /\ [](\A id \in acked : Copies(id) = 0)

\* a message was written to a stream, expired and was requeued, and a session
\* that received it again has recorded it and not yet written it; the ack
\* that came then succeeded and the broker holds the message no more
C37_Witness ==
  \E id \in returned \cap acked, c \in Consumers :
    /\ cons[c].pc = "send" /\ cons[c].msg.id = id
    /\ out.op = "ack" /\ out.status = 200
    /\ Copies(id) = 0


\* the ring owner of key K
Owner(K) == GetBrokerByTopicPartition(K[1], K[2])
\* the endpoints marked healthy hold e and none that comes before e in the
\* broker list
FirstHealthy(e) ==
  \E i \in 1..Len(brokerEndpoints) :
    /\ brokerEndpoints[i] = e /\ healthyBrokers[e]
    /\ \A j \in 1..(i - 1) : ~healthyBrokers[brokerEndpoints[j]]

\* C38: failover leaves healthy owners alone.  A key whose ring owner is
\* marked healthy is looked up to, and forwarded to, that owner whatever the
\* marks of the other brokers; a key whose owner is marked unhealthy, while
\* some endpoint is marked healthy, goes to the first healthy endpoint of the
\* broker list, which is the same for all such keys; and a round of health
\* checks changes the health map only, not the ring.
C38_FailoverFrame ==
  /\ [](\A K \in RouteKeys :
          LET target == getBrokerForTopicPartition(K[1], K[2]) IN
            /\ healthyBrokers[Owner(K)] => target = Owner(K)
            /\ (~healthyBrokers[Owner(K)] /\ \E e \in Endpoints : healthyBrokers[e])
                 => FirstHealthy(target))
  /\ [][/\ Routes => pout'.target = getBrokerForTopicPartition(pout'.key[1], pout'.key[2])
        /\ HealthRound => UNCHANGED <<brokers, ring, sortedHashes>>]_vars

\* Since the last change of the health map one key went to its healthy owner
\* and another, whose owner is marked unhealthy, to the first healthy
\* endpoint, which is not the first of the broker list.
C38_Witness ==
  \E K \in RouteKeys :
    /\ K # pout.key /\ routed[K] = Owner(K) /\ healthyBrokers[Owner(K)]
    /\ pout.op # "" /\ ~healthyBrokers[Owner(pout.key)]
    /\ FirstHealthy(pout.target) /\ pout.target # brokerEndpoints[1]


\* broker X has served a /consume stream for key K through the proxy: the
\* proxy's statistics hold a success under the stream's URL
ServedConsume(X, K) ==
  CountAt(stats.brokerRequestCounts, targetURL(X, "consume", K[1], K[2])) > 0

\* C39: the ack reaches the delivering broker.  An /ack for (topic,
\* partition) is forwarded to the broker that served the /consume stream of
\* that (topic, partition), by which the message was delivered, whatever
\* rounds of health checks came between the stream and the ack.
C39_AckToDeliverer ==
  [][(Routes /\ pout'.op = "ack") =>
       \A X \in Endpoints : ServedConsume(X, pout'.key) => pout'.target = X]_vars


\* the step in which producer p's enqueue calls p.file.Write
WritesFile(p) == prod[p].pc = "persist" /\ prod'[p].pc # "persist"
\* the step in which producer p's enqueue executes its send on the queue
SendsFromEnqueue(p) == prod[p].pc = "push" /\ prod'[p].pc # "push"
\* the step in which the monitor of partition k executes a send on the queue
SendsFromMonitor(k) ==
  monitor[k].pc = "scan" /\ monitor'[k].todo # monitor[k].todo

\* C40: Close is safe against concurrent senders.  However Partition.Close
\* falls between the steps of an enqueue and of a scan of the monitor, no
\* send on the queue channel is executed after the channel is closed and no
\* Write on the log file after the file is closed.
C40_CloseSafe ==
  [][/\ \A p \in Producers :
          SendsFromEnqueue(p) \/ WritesFile(p) => ~closed[KeyOf(prod[p].msg)]
     /\ \A k \in PKeys : SendsFromMonitor(k) => ~closed[k]]_vars

====
